---- MODULE Spec2Model ----
(***************************************************************************)
(* Predictive closure-signal engine of is-retiro-open.                     *)
(*                                                                         *)
(*   api/aemet-warnings.ts      isRelevantWarning, isWarningActive,        *)
(*                              buildWarningSignal                         *)
(*   src/utils/closureAdvisory  resolveClosureAdvisory                     *)
(*   src/utils/primaryStatus    resolvePrimaryStatus                       *)
(*   src/App.tsx                the composition rendered by the App        *)
(*   api/aemet-warnings.ts      extractXmlDocumentsFromTarBuffer,          *)
(*                              extractXmlDocuments, parseCapXml, handler  *)
(*   src/utils/madridApi.ts     fetchWithRetry                             *)
(*                                                                         *)
(* Text is a sequence of one-character strings, so that split, trim,       *)
(* includes and the case conversions are computed character by character.  *)
(* An instant is a number of milliseconds counted from 00:00 UTC of the    *)
(* first day of the modelled window (a winter day: Madrid is on CET).      *)
(***************************************************************************)
EXTENDS Integers, Sequences, FiniteSets, TLC

VARIABLES
    pc,             \* "start", or the name of the operation that has run
    warnings,       \* AemetWarning[] handed to the warning functions
    now,            \* the reference clock (ms)
    relevant,       \* result of isRelevantWarning(warnings[1])
    active,         \* result of isWarningActive(warnings[1], now)
    signal,         \* result of buildWarningSignal(warnings, now)
    code,           \* data?.code: 1..6, or NoCode when there is no data
    weather,        \* WeatherWarningSignal held by the App, or Null
    advisoryState,  \* the advisory state handed to resolvePrimaryStatus
    advisory,       \* result of resolveClosureAdvisory
    primaryStatus,  \* result of resolvePrimaryStatus
    payload,        \* how the raw buffer was put together (entries, ending)
    buffer,         \* the raw bytes handed to the extractors
    contentType,    \* the declared content type
    tarDocs,        \* result of extractXmlDocumentsFromTarBuffer(buffer)
    extracted,      \* outcome of extractXmlDocuments(buffer, contentType)
    retries,        \* fetchWithRetry: the retries argument
    attempt,        \* fetchWithRetry: the loop counter
    fetches,        \* fetchWithRetry: calls of fetch made so far
    waited,         \* fetchWithRetry: the delays waited so far (ms)
    failures,       \* fetchWithRetry: the errors caught so far
    thrown,         \* fetchWithRetry: the error it threw, or Null
    req,            \* handler: the request (method and query)
    apiKey,         \* handler: process.env.AEMET_API_KEY
    keyRead,        \* handler: whether the API key has been read
    fetchCount,     \* handler: calls of fetch made so far
    failure,        \* handler: the stage of the pipeline that failed, or "none"
    response,       \* handler: the response sent, or Null
    data,           \* useRetiroStatus: the RetiroStatus held, or Null
    loading,        \* useRetiroStatus: the loading flag
    error,          \* useRetiroStatus: the error held
    isOffline,      \* useRetiroStatus: the offline flag
    online,         \* navigator.onLine
    urlParams,      \* window.location.search: the mock and code parameters
    pending,        \* useRetiroStatus: the fetchStatus invocations still awaiting
    started,        \* useRetiroStatus: the fetchStatus invocations made so far
    succeeded,      \* useRetiroStatus: the invocations that have set data
    clientNow,      \* the browser's clock (ms)
    clientSignal,   \* useWeatherWarnings: the signal its mock branch set, or Null
    wallClock,      \* the server's clock (ms), read by new Date()
    calls           \* the calls of buildWarningSignal made so far

callVars == <<wallClock, calls>>
clientVars == <<data, loading, error, isOffline, online, urlParams, pending,
                started, succeeded, clientNow, clientSignal>>
handlerVars == <<req, apiKey, keyRead, fetchCount, failure, response>>
retryVars == <<retries, attempt, fetches, waited, failures, thrown>>
extractVars == <<payload, buffer, contentType, tarDocs, extracted>>

classifyVars == <<warnings, now, relevant, active, signal, code, weather,
                  advisoryState, advisory, primaryStatus>>
vars == <<pc, warnings, now, relevant, active, signal, code, weather,
          advisoryState, advisory, primaryStatus, extractVars, retryVars, handlerVars, clientVars, callVars>>

----------------------------------------------------------------------------
(* Bounds of the model *)

MaxWarnings == 2    \* longest record list handed to buildWarningSignal
WindowStart == 19   \* first hour (UTC, day 0) of the modelled window
WindowHours == 7    \* the window is WindowStart..WindowStart+WindowHours

----------------------------------------------------------------------------
(* Text *)

LowerLetters == <<"a","b","c","d","e","f","g","h","i","j","k","l","m",
                  "n","o","p","q","r","s","t","u","v","w","x","y","z">>
UpperLetters == <<"A","B","C","D","E","F","G","H","I","J","K","L","M",
                  "N","O","P","Q","R","S","T","U","V","W","X","Y","Z">>

toLowerCaseChar(c) ==
    IF \E i \in 1..Len(UpperLetters) : UpperLetters[i] = c
    THEN LowerLetters[CHOOSE i \in 1..Len(UpperLetters) : UpperLetters[i] = c]
    ELSE c

toUpperCaseChar(c) ==
    IF \E i \in 1..Len(LowerLetters) : LowerLetters[i] = c
    THEN UpperLetters[CHOOSE i \in 1..Len(LowerLetters) : LowerLetters[i] = c]
    ELSE c

toLowerCase(s) == [i \in 1..Len(s) |-> toLowerCaseChar(s[i])]
toUpperCase(s) == [i \in 1..Len(s) |-> toUpperCaseChar(s[i])]

WhiteSpace == {" ", "\t", "\n"}

\* String.prototype.trim
trim(s) ==
    IF \A i \in 1..Len(s) : s[i] \in WhiteSpace THEN <<>>
    ELSE LET first == CHOOSE i \in 1..Len(s) :
                          /\ s[i] \notin WhiteSpace
                          /\ \A j \in 1..(i - 1) : s[j] \in WhiteSpace
             last  == CHOOSE i \in 1..Len(s) :
                          /\ s[i] \notin WhiteSpace
                          /\ \A j \in (i + 1)..Len(s) : s[j] \in WhiteSpace
         IN  SubSeq(s, first, last)

\* s.split(sep)[0]: the text before the first separator
splitFirst(s, sep) ==
    LET hits == {i \in 1..Len(s) : s[i] = sep}
    IN  IF hits = {} THEN s
        ELSE SubSeq(s, 1, (CHOOSE i \in hits : \A j \in hits : i <= j) - 1)

\* String.prototype.includes
includes(s, sub) ==
    \E i \in 1..(Len(s) - Len(sub) + 1) : SubSeq(s, i, i + Len(sub) - 1) = sub

\* An optional string property: undefined, or a (possibly empty) text
Undefined == [defined |-> FALSE, text |-> <<>>]
Some(s)   == [defined |-> TRUE, text |-> s]

\* JavaScript truthiness of an optional string: undefined and "" are falsy
truthy(opt) == opt.defined /\ Len(opt.text) > 0

----------------------------------------------------------------------------
(* Official status and the two resolvers *)

NoCode == 0                     \* data?.code when data is null
StatusCodes == 1..6             \* type StatusCode

Null == [null |-> TRUE]         \* null / undefined object
NullOnset == [form |-> "null", hour |-> 0, off |-> 0]

AdvisoryStates == {"none", "likely_closed_now", "closing_soon", "closing_later_today"}

\* variant: the official-closure test is missing
resolveClosureAdvisory_NoClosedTest(c, w) ==
    IF c = NoCode \/ w = Null
    THEN [state |-> "none", nextWarningOnset |-> NullOnset]
    ELSE IF w.hasActiveWarning
    THEN [state |-> "likely_closed_now", nextWarningOnset |-> w.nextWarningOnset]
    ELSE IF w.hasWarningWithin2Hours
    THEN [state |-> "closing_soon", nextWarningOnset |-> w.nextWarningOnset]
    ELSE IF w.hasWarningLaterToday
    THEN [state |-> "closing_later_today", nextWarningOnset |-> w.nextWarningOnset]
    ELSE [state |-> "none", nextWarningOnset |-> NullOnset]

\* variant: the within-2-hours flag is tested before the active flag
resolveClosureAdvisory_SoonFirst(c, w) ==
    IF c = NoCode \/ w = Null
    THEN [state |-> "none", nextWarningOnset |-> NullOnset]
    ELSE IF c >= 5
    THEN [state |-> "none", nextWarningOnset |-> NullOnset]
    ELSE IF w.hasWarningWithin2Hours
    THEN [state |-> "closing_soon", nextWarningOnset |-> w.nextWarningOnset]
    ELSE IF w.hasActiveWarning
    THEN [state |-> "likely_closed_now", nextWarningOnset |-> w.nextWarningOnset]
    ELSE IF w.hasWarningLaterToday
    THEN [state |-> "closing_later_today", nextWarningOnset |-> w.nextWarningOnset]
    ELSE [state |-> "none", nextWarningOnset |-> NullOnset]

resolveClosureAdvisory(c, w) ==
    IF c = NoCode \/ w = Null
    THEN [state |-> "none", nextWarningOnset |-> NullOnset]
    ELSE IF c >= 5
    THEN [state |-> "none", nextWarningOnset |-> NullOnset]
    ELSE IF w.hasActiveWarning
    THEN [state |-> "likely_closed_now", nextWarningOnset |-> w.nextWarningOnset]
    ELSE IF w.hasWarningWithin2Hours
    THEN [state |-> "closing_soon", nextWarningOnset |-> w.nextWarningOnset]
    ELSE IF w.hasWarningLaterToday
    THEN [state |-> "closing_later_today", nextWarningOnset |-> w.nextWarningOnset]
    ELSE [state |-> "none", nextWarningOnset |-> NullOnset]

\* variant: the advisory is looked at before the official closure
resolvePrimaryStatus_AdvisoryFirst(c, a) ==
    IF c = NoCode THEN [mode |-> "official", themeCode |-> 1]
    ELSE IF a = "likely_closed_now" THEN [mode |-> "predicted_closed", themeCode |-> 6]
    ELSE IF a = "closing_soon" THEN [mode |-> "closing", themeCode |-> 4]
    ELSE IF c >= 5 THEN [mode |-> "official", themeCode |-> c]
    ELSE [mode |-> "official", themeCode |-> c]

\* variant: a later-today advisory also switches the display to closing
resolvePrimaryStatus_LaterCloses(c, a) ==
    IF c = NoCode THEN [mode |-> "official", themeCode |-> 1]
    ELSE IF c >= 5 THEN [mode |-> "official", themeCode |-> c]
    ELSE IF a = "likely_closed_now" THEN [mode |-> "predicted_closed", themeCode |-> 6]
    ELSE IF a \in {"closing_soon", "closing_later_today"}
    THEN [mode |-> "closing", themeCode |-> 4]
    ELSE [mode |-> "official", themeCode |-> c]

resolvePrimaryStatus(c, a) ==
    IF c = NoCode THEN [mode |-> "official", themeCode |-> 1]
    ELSE IF c >= 5 THEN [mode |-> "official", themeCode |-> c]
    ELSE IF a = "likely_closed_now" THEN [mode |-> "predicted_closed", themeCode |-> 6]
    ELSE IF a = "closing_soon" THEN [mode |-> "closing", themeCode |-> 4]
    ELSE [mode |-> "official", themeCode |-> c]

\* variant: the App hands the primary resolver only the active state
appPrimaryStatus_ActiveOnly(c, adv) ==
    resolvePrimaryStatus(c, IF adv.state = "likely_closed_now"
                            THEN "likely_closed_now" ELSE "none")

\* App.tsx: resolvePrimaryStatus(data?.code, advisory.state)
appPrimaryStatus(c, adv) == resolvePrimaryStatus(c, adv.state)

----------------------------------------------------------------------------
(* Instants and timestamp text *)

HourMs == 60 * 60 * 1000
DayMs  == 24 * HourMs
CLOSING_SOON_WINDOW_MS == 2 * 60 * 60 * 1000

\* Europe/Madrid is one hour ahead of UTC over the modelled (winter) window
MadridUtcOffsetHours == 1

\* A timestamp property of a record is undefined, the empty text, a text
\* that is no date, or an ISO-8601 text "day0 + hour, at UTC offset +off".
UndefinedTime == [form |-> "undefined", hour |-> 0, off |-> 0]
EmptyTime     == [form |-> "empty", hour |-> 0, off |-> 0]
InvalidTime   == [form |-> "invalid", hour |-> 0, off |-> 0]
Iso(h, o)     == [form |-> "iso", hour |-> h, off |-> o]

\* JavaScript truthiness of a timestamp property (`if (warning.onset)`)
truthyTime(ts) == ts.form \notin {"undefined", "empty", "null"}

\* parseDate: new Date(value), null when the time value is NaN
parseDate(ts) ==
    IF ts.form = "iso"
    THEN [valid |-> TRUE, time |-> (ts.hour - ts.off) * HourMs]
    ELSE [valid |-> FALSE, time |-> 0]

\* Date.prototype.toISOString: always the UTC ("Z") form
toISOString(t) == Iso(t \div HourMs, 0)

\* variant: the calendar day is taken on the UTC clock
getMadridDateKey_UTC(t) == t \div DayMs

\* getMadridDateKey: the calendar day of the instant on Madrid's clocks
getMadridDateKey(t) == (t + MadridUtcOffsetHours * HourMs) \div DayMs

----------------------------------------------------------------------------
(* Warning records and the relevance / activity filters *)

MADRID_RETIRO_ZONE == <<"7","2","2","8","0","2">>
RELEVANT_WARNING_PREFIXES == {<<"V","I">>, <<"N","E">>}

\* variant: a record is not yet active at the instant of its onset
isWarningActive_AfterOnset(w, n) ==
    IF truthyTime(w.onset)
       /\ (~parseDate(w.onset).valid \/ parseDate(w.onset).time >= n)
    THEN FALSE
    ELSE IF truthyTime(w.expires)
            /\ (~parseDate(w.expires).valid \/ parseDate(w.expires).time <= n)
    THEN FALSE
    ELSE TRUE

isWarningActive(w, n) ==
    IF truthyTime(w.onset)
       /\ (~parseDate(w.onset).valid \/ parseDate(w.onset).time > n)
    THEN FALSE
    ELSE IF truthyTime(w.expires)
            /\ (~parseDate(w.expires).valid \/ parseDate(w.expires).time <= n)
    THEN FALSE
    ELSE TRUE

\* variant: the phenomenon only has to start with a relevant code
isRelevantWarning_StartsWith(w) ==
    IF ~truthy(w.fenomeno) THEN FALSE
    ELSE IF ~truthy(w.zona) \/ ~includes(w.zona.text, MADRID_RETIRO_ZONE) THEN FALSE
    ELSE LET text == toUpperCase(trim(w.fenomeno.text))
         IN  \E prefix \in RELEVANT_WARNING_PREFIXES :
                 /\ Len(text) >= Len(prefix)
                 /\ SubSeq(text, 1, Len(prefix)) = prefix

isRelevantWarning(w) ==
    IF ~truthy(w.fenomeno) THEN FALSE
    ELSE IF ~truthy(w.zona) \/ ~includes(w.zona.text, MADRID_RETIRO_ZONE) THEN FALSE
    ELSE LET warningCode == toUpperCase(trim(splitFirst(w.fenomeno.text, ";")))
         IN  IF Len(warningCode) = 0 THEN FALSE
             ELSE warningCode \in RELEVANT_WARNING_PREFIXES

----------------------------------------------------------------------------
(* Severity *)

WARNING_SEVERITY_RANK(s) ==
    CASE s = "minor" -> 1
      [] s = "moderate" -> 2
      [] s = "severe" -> 3
      [] s = "extreme" -> 4

normalizeSeverity(nivel) ==
    IF ~truthy(nivel) THEN "null"
    ELSE LET normalized == toLowerCase(nivel.text)
         IN  CASE normalized = <<"m","i","n","o","r">> -> "minor"
               [] normalized = <<"m","o","d","e","r","a","t","e">> -> "moderate"
               [] normalized = <<"s","e","v","e","r","e">> -> "severe"
               [] normalized = <<"e","x","t","r","e","m","e">> -> "extreme"
               [] OTHER -> "null"

\* the for-loop of pickHighestSeverity, from index i with the running maximum
RECURSIVE pickHighestFrom(_, _, _)
pickHighestFrom(ws, i, highest) ==
    IF i > Len(ws) THEN highest
    ELSE LET current == normalizeSeverity(ws[i].nivel)
         IN  IF current = "null" THEN pickHighestFrom(ws, i + 1, highest)
             ELSE IF highest = "null"
                     \/ WARNING_SEVERITY_RANK(current) > WARNING_SEVERITY_RANK(highest)
             THEN pickHighestFrom(ws, i + 1, current)
             ELSE pickHighestFrom(ws, i + 1, highest)

pickHighestSeverity(ws) == pickHighestFrom(ws, 1, "null")

----------------------------------------------------------------------------
(* buildWarningSignal *)

\* variant: a record whose onset is now counts as upcoming
RECURSIVE upcomingFrom_NotStrict(_, _, _)
upcomingFrom_NotStrict(ws, i, n) ==
    IF i > Len(ws) THEN <<>>
    ELSE LET w == ws[i]
             rest == upcomingFrom_NotStrict(ws, i + 1, n)
         IN  IF ~truthyTime(w.onset) THEN rest
             ELSE LET onset == parseDate(w.onset)
                  IN  IF ~onset.valid \/ onset.time < n THEN rest
                      ELSE <<[warning |-> w, onset |-> onset.time]>> \o rest

\* upcoming entries {warning, onset}: the map(...).filter(non-null) of the code
RECURSIVE upcomingFrom(_, _, _)
upcomingFrom(ws, i, n) ==
    IF i > Len(ws) THEN <<>>
    ELSE LET w == ws[i]
             rest == upcomingFrom(ws, i + 1, n)
         IN  IF ~truthyTime(w.onset) THEN rest
             ELSE LET onset == parseDate(w.onset)
                  IN  IF ~onset.valid \/ onset.time <= n THEN rest
                      ELSE <<[warning |-> w, onset |-> onset.time]>> \o rest

\* variant: an entry is put before the entries of equal onset
RECURSIVE insertByOnset_Unstable(_, _)
insertByOnset_Unstable(sorted, e) ==
    IF sorted = <<>> THEN <<e>>
    ELSE IF Head(sorted).onset - e.onset < 0
    THEN <<Head(sorted)>> \o insertByOnset_Unstable(Tail(sorted), e)
    ELSE <<e>> \o sorted

\* stable insertion of an entry into an onset-ordered sequence: after every
\* entry whose onset is not later
RECURSIVE insertByOnset(_, _)
insertByOnset(sorted, e) ==
    IF sorted = <<>> THEN <<e>>
    ELSE IF Head(sorted).onset - e.onset <= 0
    THEN <<Head(sorted)>> \o insertByOnset(Tail(sorted), e)
    ELSE <<e>> \o sorted

\* Array.prototype.sort((a, b) => a.onset - b.onset): ascending and stable
RECURSIVE sortByOnset(_)
sortByOnset(s) ==
    IF s = <<>> THEN <<>>
    ELSE insertByOnset(sortByOnset(SubSeq(s, 1, Len(s) - 1)), s[Len(s)])

\* variant: the active records are taken from every record, relevant or not
buildWarningSignal_ActiveFromAll(ws, n) ==
    LET relevantWarnings == SelectSeq(ws, isRelevantWarning)
        IsActiveNow(w) == isWarningActive(w, n)
        activeWarnings == SelectSeq(ws, IsActiveNow)
        upcomingWarnings == sortByOnset(upcomingFrom(relevantWarnings, 1, n))
        hasNext == Len(upcomingWarnings) > 0
        nextUpcoming == upcomingWarnings[1]
        hasWarningWithin2Hours ==
            IF hasNext THEN nextUpcoming.onset - n <= CLOSING_SOON_WINDOW_MS ELSE FALSE
        hasWarningLaterToday ==
            IF hasNext
            THEN ~hasWarningWithin2Hours
                 /\ getMadridDateKey(nextUpcoming.onset) = getMadridDateKey(n)
            ELSE FALSE
    IN  [hasActiveWarning |-> Len(activeWarnings) > 0,
         hasWarningWithin2Hours |-> hasWarningWithin2Hours,
         hasWarningLaterToday |-> hasWarningLaterToday,
         activeWarningSeverity |-> pickHighestSeverity(activeWarnings),
         nextWarningOnset |->
             IF hasNext THEN toISOString(nextUpcoming.onset) ELSE NullOnset,
         nextWarningSeverity |->
             IF hasNext THEN normalizeSeverity(nextUpcoming.warning.nivel) ELSE "null"]

\* variant: later-today is not withheld from an onset within the 2-hour window
buildWarningSignal_LaterNotExclusive(ws, n) ==
    LET relevantWarnings == SelectSeq(ws, isRelevantWarning)
        IsActiveNow(w) == isWarningActive(w, n)
        activeWarnings == SelectSeq(relevantWarnings, IsActiveNow)
        upcomingWarnings == sortByOnset(upcomingFrom(relevantWarnings, 1, n))
        hasNext == Len(upcomingWarnings) > 0
        nextUpcoming == upcomingWarnings[1]
        hasWarningWithin2Hours ==
            IF hasNext THEN nextUpcoming.onset - n <= CLOSING_SOON_WINDOW_MS ELSE FALSE
        hasWarningLaterToday ==
            IF hasNext
            THEN getMadridDateKey(nextUpcoming.onset) = getMadridDateKey(n)
            ELSE FALSE
    IN  [hasActiveWarning |-> Len(activeWarnings) > 0,
         hasWarningWithin2Hours |-> hasWarningWithin2Hours,
         hasWarningLaterToday |-> hasWarningLaterToday,
         activeWarningSeverity |-> pickHighestSeverity(activeWarnings),
         nextWarningOnset |->
             IF hasNext THEN toISOString(nextUpcoming.onset) ELSE NullOnset,
         nextWarningSeverity |->
             IF hasNext THEN normalizeSeverity(nextUpcoming.warning.nivel) ELSE "null"]

\* variant: only records that have not expired count as upcoming
buildWarningSignal_UpcomingUnexpired(ws, n) ==
    LET relevantWarnings == SelectSeq(ws, isRelevantWarning)
        IsActiveNow(w) == isWarningActive(w, n)
        activeWarnings == SelectSeq(relevantWarnings, IsActiveNow)
        IsUnexpired(w) ==
            ~truthyTime(w.expires)
                \/ (parseDate(w.expires).valid /\ parseDate(w.expires).time > n)
        upcomingWarnings ==
            sortByOnset(upcomingFrom(SelectSeq(relevantWarnings, IsUnexpired), 1, n))
        hasNext == Len(upcomingWarnings) > 0
        nextUpcoming == upcomingWarnings[1]
        hasWarningWithin2Hours ==
            IF hasNext THEN nextUpcoming.onset - n <= CLOSING_SOON_WINDOW_MS ELSE FALSE
        hasWarningLaterToday ==
            IF hasNext
            THEN ~hasWarningWithin2Hours
                 /\ getMadridDateKey(nextUpcoming.onset) = getMadridDateKey(n)
            ELSE FALSE
    IN  [hasActiveWarning |-> Len(activeWarnings) > 0,
         hasWarningWithin2Hours |-> hasWarningWithin2Hours,
         hasWarningLaterToday |-> hasWarningLaterToday,
         activeWarningSeverity |-> pickHighestSeverity(activeWarnings),
         nextWarningOnset |->
             IF hasNext THEN toISOString(nextUpcoming.onset) ELSE NullOnset,
         nextWarningSeverity |->
             IF hasNext THEN normalizeSeverity(nextUpcoming.warning.nivel) ELSE "null"]

buildWarningSignal(ws, n) ==
    LET relevantWarnings == SelectSeq(ws, isRelevantWarning)
        IsActiveNow(w) == isWarningActive(w, n)
        activeWarnings == SelectSeq(relevantWarnings, IsActiveNow)
        upcomingWarnings == sortByOnset(upcomingFrom(relevantWarnings, 1, n))
        hasNext == Len(upcomingWarnings) > 0
        nextUpcoming == upcomingWarnings[1]
        hasWarningWithin2Hours ==
            IF hasNext THEN nextUpcoming.onset - n <= CLOSING_SOON_WINDOW_MS ELSE FALSE
        hasWarningLaterToday ==
            IF hasNext
            THEN ~hasWarningWithin2Hours
                 /\ getMadridDateKey(nextUpcoming.onset) = getMadridDateKey(n)
            ELSE FALSE
    IN  [hasActiveWarning |-> Len(activeWarnings) > 0,
         hasWarningWithin2Hours |-> hasWarningWithin2Hours,
         hasWarningLaterToday |-> hasWarningLaterToday,
         activeWarningSeverity |-> pickHighestSeverity(activeWarnings),
         nextWarningOnset |->
             IF hasNext THEN toISOString(nextUpcoming.onset) ELSE NullOnset,
         nextWarningSeverity |->
             IF hasNext THEN normalizeSeverity(nextUpcoming.warning.nivel) ELSE "null"]

----------------------------------------------------------------------------
(* Bytes and their text *)

TAR_BLOCK_SIZE == 512

NUL         == "U+0000"     \* the character of byte 0
REPLACEMENT == "U+FFFD"     \* what the decoder gives for a byte it cannot map
GRAVE       == "U+0060"     \* the character of byte 96

\* the characters of the bytes 32..126, in order
Printable == <<
    " ", "!", "\"", "#", "$", "%", "&", "'", "(", ")", "*", "+",
    ",", "-", ".", "/", "0", "1", "2", "3", "4", "5", "6", "7",
    "8", "9", ":", ";", "<", "=", ">", "?", "@", "A", "B", "C",
    "D", "E", "F", "G", "H", "I", "J", "K", "L", "M", "N", "O",
    "P", "Q", "R", "S", "T", "U", "V", "W", "X", "Y", "Z", "[",
    "\\", "]", "^", "_", GRAVE, "a", "b", "c", "d", "e", "f", "g",
    "h", "i", "j", "k", "l", "m", "n", "o", "p", "q", "r", "s",
    "t", "u", "v", "w", "x", "y", "z", "{", "|", "}", "~">>

\* String.fromCharCode / one ASCII byte of TextDecoder("utf-8").decode
fromCharCode(b) ==
    IF b = 0 THEN NUL
    ELSE IF b = 9 THEN "\t"
    ELSE IF b = 10 THEN "\n"
    ELSE IF b \in 32..126 THEN Printable[b - 31]
    ELSE REPLACEMENT

\* TextDecoder("utf-8").decode over ASCII bytes
decodeUtf8(bytes) == [i \in 1..Len(bytes) |-> fromCharCode(bytes[i])]

CodeOf ==
    [c \in {Printable[i] : i \in 1..Len(Printable)} |->
        31 + CHOOSE i \in 1..Len(Printable) : Printable[i] = c]

\* TextEncoder.encode over ASCII text
charCode(c) ==
    IF c = NUL THEN 0
    ELSE IF c = "\t" THEN 9
    ELSE IF c = "\n" THEN 10
    ELSE CodeOf[c]

encodeUtf8(text) == [i \in 1..Len(text) |-> charCode(text[i])]

Zeros(n) == [i \in 1..n |-> 0]

----------------------------------------------------------------------------
(* extractXmlDocumentsFromText: /<alert\b[\s\S]*?<\/alert>/gi *)

Digits == {"0","1","2","3","4","5","6","7","8","9"}

isWordChar(c) ==
    \/ c \in Digits
    \/ c = "_"
    \/ \E i \in 1..Len(LowerLetters) : c = LowerLetters[i] \/ c = UpperLetters[i]

\* the lower-case pattern pat stands at position i of s, whatever the case
matchesAt(s, i, pat) ==
    /\ i + Len(pat) - 1 <= Len(s)
    /\ \A k \in 1..Len(pat) : toLowerCaseChar(s[i + k - 1]) = pat[k]

AlertOpen  == <<"<","a","l","e","r","t">>
AlertClose == <<"<","/","a","l","e","r","t",">">>

\* <alert\b : the tag name ends at a word boundary
alertOpensAt(s, i) ==
    /\ matchesAt(s, i, AlertOpen)
    /\ (i + Len(AlertOpen) > Len(s) \/ ~isWordChar(s[i + Len(AlertOpen)]))

\* the successive matches of the global regex from position from: the first
\* opening tag, then lazily up to the first closing tag after it
RECURSIVE alertMatchesFrom(_, _)
alertMatchesFrom(s, from) ==
    LET opens == {i \in from..Len(s) : s[i] = "<" /\ alertOpensAt(s, i)}
    IN  IF opens = {} THEN <<>>
        ELSE LET a == CHOOSE i \in opens : \A j \in opens : i <= j
                 closes == {e \in (a + Len(AlertOpen))..Len(s) :
                               s[e] = "<" /\ matchesAt(s, e, AlertClose)}
             IN  IF closes = {} THEN <<>>
                 ELSE LET e == CHOOSE i \in closes : \A j \in closes : i <= j
                          last == e + Len(AlertClose) - 1
                      IN  <<SubSeq(s, a, last)>> \o alertMatchesFrom(s, last + 1)

nonEmptyText(t) == Len(t) > 0

extractXmlDocumentsFromText(rawText) ==
    LET xmlMatches == alertMatchesFrom(rawText, 1)
        trimmed == [i \in 1..Len(xmlMatches) |-> trim(xmlMatches[i])]
    IN  SelectSeq(trimmed, nonEmptyText)

----------------------------------------------------------------------------
(* The archive reader *)

\* readTarAscii: the characters of the field up to its first zero byte
readTarAscii(field) ==
    LET zeros == {i \in 1..Len(field) : field[i] = 0}
        end == IF zeros = {} THEN Len(field)
               ELSE (CHOOSE i \in zeros : \A j \in zeros : i <= j) - 1
    IN  [i \in 1..end |-> fromCharCode(field[i])]

OctalDigits == <<"0","1","2","3","4","5","6","7">>
isOctalDigit(c) == \E d \in 1..Len(OctalDigits) : OctalDigits[d] = c
octalValue(c) == (CHOOSE d \in 1..Len(OctalDigits) : OctalDigits[d] = c) - 1

\* the value of a run of octal digits, most significant first
RECURSIVE octalNumber(_)
octalNumber(ds) ==
    IF ds = <<>> THEN 0
    ELSE 8 * octalNumber(SubSeq(ds, 1, Len(ds) - 1)) + octalValue(ds[Len(ds)])

\* Number.parseInt(text, 8): leading white space, an optional sign, then the
\* longest run of octal digits; NaN when that run is empty
parseIntOctal(text) ==
    LET body == trim(text)
        signed == Len(body) > 0 /\ body[1] \in {"+", "-"}
        rest == IF signed THEN Tail(body) ELSE body
        stops == {i \in 1..Len(rest) : ~isOctalDigit(rest[i])}
        run == IF stops = {} THEN rest
               ELSE SubSeq(rest, 1, (CHOOSE i \in stops : \A j \in stops : i <= j) - 1)
    IN  IF run = <<>> THEN [nan |-> TRUE, value |-> 0]
        ELSE [nan |-> FALSE,
              value |-> IF signed /\ body[1] = "-" THEN 0 - octalNumber(run)
                        ELSE octalNumber(run)]

notNul(c) == c # NUL

\* parseTarFileSize: the size field is the 12 bytes at offset 124 of the header
parseTarFileSize(header) ==
    LET sizeField == SubSeq(header, 125, 136)
        octalSize == SelectSeq(trim(readTarAscii(sizeField)), notNul)
    IN  IF octalSize = <<>> THEN [ok |-> TRUE, size |-> 0]
        ELSE LET parsed == parseIntOctal(octalSize)
             IN  IF parsed.nan \/ parsed.value < 0
                 THEN [ok |-> FALSE, size |-> 0]
                 ELSE [ok |-> TRUE, size |-> parsed.value]

\* Math.ceil(fileSize / TAR_BLOCK_SIZE) * TAR_BLOCK_SIZE
paddedSizeOf(fileSize) ==
    ((fileSize + TAR_BLOCK_SIZE - 1) \div TAR_BLOCK_SIZE) * TAR_BLOCK_SIZE

\* variant: an entry holding no document ends the walk
RECURSIVE tarWalk_StopsAtDoclessEntry(_, _, _, _)
tarWalk_StopsAtDoclessEntry(bytes, offset, xmlDocs, steps) ==
    IF ~(offset + TAR_BLOCK_SIZE <= Len(bytes))
    THEN [docs |-> xmlDocs, steps |-> steps, exit |-> "endOfBuffer"]
    ELSE LET header == SubSeq(bytes, offset + 1, offset + TAR_BLOCK_SIZE)
             isEndBlock == \A i \in 1..Len(header) : header[i] = 0
         IN  IF isEndBlock
             THEN [docs |-> xmlDocs, steps |-> steps + 1, exit |-> "endBlock"]
             ELSE LET fileSize == parseTarFileSize(header)
                      dataStart == offset + TAR_BLOCK_SIZE
                      nextOffset == dataStart + paddedSizeOf(fileSize.size)
                  IN  IF ~fileSize.ok
                      THEN [docs |-> <<>>, steps |-> steps + 1, exit |-> "badSize"]
                      ELSE IF nextOffset > Len(bytes)
                      THEN [docs |-> <<>>, steps |-> steps + 1, exit |-> "overrun"]
                      ELSE LET fileText ==
                                   decodeUtf8(SubSeq(bytes, dataStart + 1,
                                                     dataStart + fileSize.size))
                               matches ==
                                   IF fileSize.size > 0
                                   THEN extractXmlDocumentsFromText(fileText)
                                   ELSE <<>>
                           IN  IF matches = <<>>
                               THEN [docs |-> xmlDocs, steps |-> steps + 1,
                                     exit |-> "endBlock"]
                               ELSE tarWalk_StopsAtDoclessEntry(
                                        bytes, nextOffset, xmlDocs \o matches,
                                        steps + 1)

\* variant: a bad size field or an overrun ends the walk with the documents
\* pushed so far
RECURSIVE tarWalk_PartialResults(_, _, _, _)
tarWalk_PartialResults(bytes, offset, xmlDocs, steps) ==
    IF ~(offset + TAR_BLOCK_SIZE <= Len(bytes))
    THEN [docs |-> xmlDocs, steps |-> steps, exit |-> "endOfBuffer"]
    ELSE LET header == SubSeq(bytes, offset + 1, offset + TAR_BLOCK_SIZE)
             isEndBlock == \A i \in 1..Len(header) : header[i] = 0
         IN  IF isEndBlock
             THEN [docs |-> xmlDocs, steps |-> steps + 1, exit |-> "endBlock"]
             ELSE LET fileSize == parseTarFileSize(header)
                      dataStart == offset + TAR_BLOCK_SIZE
                      nextOffset == dataStart + paddedSizeOf(fileSize.size)
                  IN  IF ~fileSize.ok
                      THEN [docs |-> xmlDocs, steps |-> steps + 1, exit |-> "badSize"]
                      ELSE IF nextOffset > Len(bytes)
                      THEN [docs |-> xmlDocs, steps |-> steps + 1, exit |-> "overrun"]
                      ELSE LET fileText ==
                                   decodeUtf8(SubSeq(bytes, dataStart + 1,
                                                     dataStart + fileSize.size))
                               matches ==
                                   IF fileSize.size > 0
                                   THEN extractXmlDocumentsFromText(fileText)
                                   ELSE <<>>
                           IN  tarWalk_PartialResults(bytes, nextOffset,
                                                      xmlDocs \o matches, steps + 1)

\* variant: the next header is looked for half a block after the last one
RECURSIVE tarWalk_HalfBlockAdvance(_, _, _, _)
tarWalk_HalfBlockAdvance(bytes, offset, xmlDocs, steps) ==
    IF ~(offset + TAR_BLOCK_SIZE <= Len(bytes))
    THEN [docs |-> xmlDocs, steps |-> steps, exit |-> "endOfBuffer"]
    ELSE LET header == SubSeq(bytes, offset + 1, offset + TAR_BLOCK_SIZE)
             isEndBlock == \A i \in 1..Len(header) : header[i] = 0
         IN  IF isEndBlock
             THEN [docs |-> xmlDocs, steps |-> steps + 1, exit |-> "endBlock"]
             ELSE LET fileSize == parseTarFileSize(header)
                      dataStart == offset + (TAR_BLOCK_SIZE \div 2)
                      nextOffset == dataStart + paddedSizeOf(fileSize.size)
                  IN  IF ~fileSize.ok
                      THEN [docs |-> <<>>, steps |-> steps + 1, exit |-> "badSize"]
                      ELSE IF nextOffset > Len(bytes)
                      THEN [docs |-> <<>>, steps |-> steps + 1, exit |-> "overrun"]
                      ELSE LET fileText ==
                                   decodeUtf8(SubSeq(bytes, dataStart + 1,
                                                     dataStart + fileSize.size))
                               matches ==
                                   IF fileSize.size > 0
                                   THEN extractXmlDocumentsFromText(fileText)
                                   ELSE <<>>
                           IN  tarWalk_HalfBlockAdvance(bytes, nextOffset,
                                                        xmlDocs \o matches, steps + 1)

\* the while loop of extractXmlDocumentsFromTarBuffer from offset, with the
\* documents pushed so far; steps counts the iterations entered and exit
\* names the statement that ended the walk
RECURSIVE tarWalk(_, _, _, _)
tarWalk(bytes, offset, xmlDocs, steps) ==
    IF ~(offset + TAR_BLOCK_SIZE <= Len(bytes))
    THEN [docs |-> xmlDocs, steps |-> steps, exit |-> "endOfBuffer"]
    ELSE LET header == SubSeq(bytes, offset + 1, offset + TAR_BLOCK_SIZE)
             isEndBlock == \A i \in 1..Len(header) : header[i] = 0
         IN  IF isEndBlock
             THEN [docs |-> xmlDocs, steps |-> steps + 1, exit |-> "endBlock"]
             ELSE LET fileSize == parseTarFileSize(header)
                      dataStart == offset + TAR_BLOCK_SIZE
                      nextOffset == dataStart + paddedSizeOf(fileSize.size)
                  IN  IF ~fileSize.ok
                      THEN [docs |-> <<>>, steps |-> steps + 1, exit |-> "badSize"]
                      ELSE IF nextOffset > Len(bytes)
                      THEN [docs |-> <<>>, steps |-> steps + 1, exit |-> "overrun"]
                      ELSE LET fileText ==
                                   decodeUtf8(SubSeq(bytes, dataStart + 1,
                                                     dataStart + fileSize.size))
                               matches ==
                                   IF fileSize.size > 0
                                   THEN extractXmlDocumentsFromText(fileText)
                                   ELSE <<>>
                           IN  tarWalk(bytes, nextOffset, xmlDocs \o matches,
                                       steps + 1)

\* variant: a buffer shorter than a block is scanned as text
tarRead_ScansShortBuffer(bytes) ==
    IF Len(bytes) < TAR_BLOCK_SIZE
    THEN [docs |-> extractXmlDocumentsFromText(decodeUtf8(bytes)), steps |-> 0,
          exit |-> "short"]
    ELSE tarWalk(bytes, 0, <<>>, 0)

\* extractXmlDocumentsFromTarBuffer, with the iterations it made and the
\* statement it returned from
tarRead(bytes) ==
    IF Len(bytes) < TAR_BLOCK_SIZE
    THEN [docs |-> <<>>, steps |-> 0, exit |-> "short"]
    ELSE tarWalk(bytes, 0, <<>>, 0)

extractXmlDocumentsFromTarBuffer(bytes) == tarRead(bytes).docs

\* variant: the raw text is scanned before the archive is read
extractXmlDocuments_TextFirst(rawBuffer, ctype) ==
    LET tarXmlDocs == extractXmlDocumentsFromTarBuffer(rawBuffer)
        rawText == decodeUtf8(rawBuffer)
        xmlMatches == extractXmlDocumentsFromText(rawText)
    IN  IF Len(xmlMatches) > 0
        THEN [threw |-> FALSE, docs |-> xmlMatches, message |-> Null]
        ELSE IF Len(tarXmlDocs) > 0
        THEN [threw |-> FALSE, docs |-> tarXmlDocs, message |-> Null]
        ELSE IF Len(trim(rawText)) = 0
        THEN [threw |-> FALSE, docs |-> <<>>, message |-> Null]
        ELSE [threw |-> TRUE, docs |-> <<>>,
              message |-> [contentType |-> ctype, length |-> Len(rawText)]]

\* variant: a text without documents gives an empty list, blank or not
extractXmlDocuments_SilentEmpty(rawBuffer, ctype) ==
    LET tarXmlDocs == extractXmlDocumentsFromTarBuffer(rawBuffer)
        rawText == decodeUtf8(rawBuffer)
        xmlMatches == extractXmlDocumentsFromText(rawText)
    IN  IF Len(tarXmlDocs) > 0
        THEN [threw |-> FALSE, docs |-> tarXmlDocs, message |-> Null]
        ELSE IF Len(xmlMatches) > 0
        THEN [threw |-> FALSE, docs |-> xmlMatches, message |-> Null]
        ELSE [threw |-> FALSE, docs |-> <<>>, message |-> Null]

\* extractXmlDocuments: the archive's documents, else the raw text's, else
\* nothing for blank text and an Error for any other text
extractXmlDocuments(rawBuffer, ctype) ==
    LET tarXmlDocs == extractXmlDocumentsFromTarBuffer(rawBuffer)
        rawText == decodeUtf8(rawBuffer)
        xmlMatches == extractXmlDocumentsFromText(rawText)
    IN  IF Len(tarXmlDocs) > 0
        THEN [threw |-> FALSE, docs |-> tarXmlDocs, message |-> Null]
        ELSE IF Len(xmlMatches) > 0
        THEN [threw |-> FALSE, docs |-> xmlMatches, message |-> Null]
        ELSE IF Len(trim(rawText)) = 0
        THEN [threw |-> FALSE, docs |-> <<>>, message |-> Null]
        ELSE [threw |-> TRUE, docs |-> <<>>,
              message |-> [contentType |-> ctype, length |-> Len(rawText)]]

----------------------------------------------------------------------------
(* parseCapXml *)

\* the least element of a non-empty set of positions
Least(S) == CHOOSE i \in S : \A j \in S : i <= j

\* extractXmlTag: new RegExp(`<${tag}[^>]*>([^<]*)</${tag}>`, "i"), the first
\* match's group trimmed, or undefined. The tag name need not end at the
\* pattern's name ("<value" also opens "<valueName ...>"); the opening tag
\* runs to the first ">", the group to the first "<", and there the closing
\* tag must stand.
tagMatchAt(s, i, open, close) ==
    /\ matchesAt(s, i, open)
    /\ \E g \in (i + Len(open))..Len(s) :
        /\ s[g] = ">"
        /\ \A k \in (i + Len(open))..(g - 1) : s[k] # ">"
        /\ \E l \in (g + 1)..Len(s) :
            /\ s[l] = "<"
            /\ \A k \in (g + 1)..(l - 1) : s[k] # "<"
            /\ matchesAt(s, l, close)

tagGroupAt(s, i, open) ==
    LET g == Least({k \in (i + Len(open))..Len(s) : s[k] = ">"})
        l == Least({k \in (g + 1)..Len(s) : s[k] = "<"})
    IN  SubSeq(s, g + 1, l - 1)

extractXmlTag(xml, tag) ==
    LET open == <<"<">> \o toLowerCase(tag)
        close == <<"<", "/">> \o toLowerCase(tag) \o <<">">>
        starts == {i \in 1..Len(xml) : xml[i] = "<" /\ tagMatchAt(xml, i, open, close)}
    IN  IF starts = {} THEN Undefined
        ELSE Some(trim(tagGroupAt(xml, Least(starts), open)))

\* the groups of the successive matches of
\* new RegExp(`<${tag}\\b[^>]*>([\\s\\S]*?)</${tag}>`, "gi") from position from
RECURSIVE blocksFrom(_, _, _)
blocksFrom(s, from, tag) ==
    LET open == <<"<">> \o toLowerCase(tag)
        close == <<"<", "/">> \o toLowerCase(tag) \o <<">">>
        opens == {i \in from..Len(s) :
                     /\ s[i] = "<"
                     /\ matchesAt(s, i, open)
                     /\ i + Len(open) <= Len(s)
                     /\ ~isWordChar(s[i + Len(open)])
                     /\ \E g \in (i + Len(open))..Len(s) : s[g] = ">"}
    IN  IF opens = {} THEN <<>>
        ELSE LET a == Least(opens)
                 g == Least({k \in (a + Len(open))..Len(s) : s[k] = ">"})
                 closes == {e \in (g + 1)..Len(s) :
                               s[e] = "<" /\ matchesAt(s, e, close)}
             IN  IF closes = {} THEN <<>>
                 ELSE LET e == Least(closes)
                      IN  <<SubSeq(s, g + 1, e - 1)>>
                              \o blocksFrom(s, e + Len(close), tag)

TagValue     == <<"v","a","l","u","e">>
TagValueName == <<"v","a","l","u","e","N","a","m","e">>
TagEventCode == <<"e","v","e","n","t","C","o","d","e">>
TagGeocode   == <<"g","e","o","c","o","d","e">>
TagInfo      == <<"i","n","f","o">>
TagOnset     == <<"o","n","s","e","t">>
TagExpires   == <<"e","x","p","i","r","e","s">>
TagSeverity  == <<"s","e","v","e","r","i","t","y">>

\* x?.toLowerCase()
toLowerCaseOpt(opt) == IF opt.defined THEN Some(toLowerCase(opt.text)) ELSE opt

\* one <valueName>/<value> pair of a block, kept when the value is truthy
namedValueOf(block) ==
    [valueName |-> toLowerCaseOpt(extractXmlTag(block, TagValueName)),
     value |-> extractXmlTag(block, TagValue)]

hasValue(pair) == truthy(pair.value)

extractNamedValues(xml, tag) ==
    LET blocks == blocksFrom(xml, 1, tag)
    IN  SelectSeq([i \in 1..Len(blocks) |-> namedValueOf(blocks[i])], hasValue)

\* entry.valueName?.includes(marker)
nameIncludes(pair, marker) ==
    pair.valueName.defined /\ includes(pair.valueName.text, marker)

MarkerFen  == <<"f","e","n">>
MarkerUgc  == <<"u","g","c">>
MarkerZona == <<"z","o","n","a">>

\* variant: the first entry with a value, whatever its name
extractFenomeno_FirstEntry(infoBlock) ==
    LET eventCodes == extractNamedValues(infoBlock, TagEventCode)
    IN  IF Len(eventCodes) = 0 THEN Undefined
        ELSE eventCodes[1].value

extractFenomeno(infoBlock) ==
    LET eventCodes == extractNamedValues(infoBlock, TagEventCode)
        found == {i \in 1..Len(eventCodes) : nameIncludes(eventCodes[i], MarkerFen)}
    IN  IF Len(eventCodes) = 0 THEN Undefined
        ELSE IF found # {} THEN eventCodes[Least(found)].value
        ELSE eventCodes[1].value

extractZona(infoBlock) ==
    LET geocodes == extractNamedValues(infoBlock, TagGeocode)
        found == {i \in 1..Len(geocodes) :
                     \/ nameIncludes(geocodes[i], MarkerUgc)
                     \/ nameIncludes(geocodes[i], MarkerZona)}
    IN  IF Len(geocodes) = 0 THEN Undefined
        ELSE IF found # {} THEN geocodes[Least(found)].value
        ELSE geocodes[1].value

\* Timestamp texts are written "2026-02-DDTHH:00:00" followed by "Z" or
\* "+01:00"; day 0 of the window is 5 February 2026.
Day0 == 5

digitValue(c) == (CHOOSE d \in 0..9 : <<"0","1","2","3","4","5","6","7","8","9">>[d + 1] = c)
twoDigits(n) == <<fromCharCode(48 + (n \div 10)), fromCharCode(48 + (n % 10))>>

DatePrefix == <<"2","0","2","6","-","0","2","-">>
ClockTail  == <<":","0","0",":","0","0">>
ZoneZ      == <<"Z">>
ZonePlus1  == <<"+","0","1",":","0","0">>

\* the text of the timestamp Iso(h, o)
IsoText(h, o) ==
    DatePrefix \o twoDigits(Day0 + (h \div 24)) \o <<"T">> \o twoDigits(h % 24)
        \o ClockTail \o (IF o = 0 THEN ZoneZ ELSE ZonePlus1)

\* the timestamp property a tag's text stands for: what new Date(text) makes
\* of it, over the texts above (any other non-empty text is no date)
timeOfText(opt) ==
    IF ~opt.defined THEN UndefinedTime
    ELSE IF opt.text = <<>> THEN EmptyTime
    ELSE LET t == opt.text
             shaped ==
                 /\ Len(t) \in {20, 25}
                 /\ SubSeq(t, 1, 8) = DatePrefix
                 /\ t[9] \in Digits /\ t[10] \in Digits
                 /\ t[11] = "T"
                 /\ t[12] \in Digits /\ t[13] \in Digits
                 /\ SubSeq(t, 14, 19) = ClockTail
                 /\ SubSeq(t, 20, Len(t)) \in {ZoneZ, ZonePlus1}
             day == 10 * digitValue(t[9]) + digitValue(t[10])
             hour == 10 * digitValue(t[12]) + digitValue(t[13])
         IN  IF shaped /\ day \in 1..28 /\ hour \in 0..23
             THEN Iso((day - Day0) * 24 + hour, IF Len(t) = 20 THEN 0 ELSE 1)
             ELSE InvalidTime

\* the record parseCapXml pushes for one info block
warningOfInfo(infoBlock) ==
    [fenomeno |-> extractFenomeno(infoBlock),
     zona |-> extractZona(infoBlock),
     onset |-> timeOfText(extractXmlTag(infoBlock, TagOnset)),
     expires |-> timeOfText(extractXmlTag(infoBlock, TagExpires)),
     nivel |-> toLowerCaseOpt(extractXmlTag(infoBlock, TagSeverity))]

parseCapXml(xml) ==
    LET infos == blocksFrom(xml, 1, TagInfo)
    IN  [i \in 1..Len(infos) |-> warningOfInfo(infos[i])]

\* the loop of the handler: warnings.push(...parseCapXml(xmlDoc)) per document
RECURSIVE parseAll(_)
parseAll(xmlDocuments) ==
    IF xmlDocuments = <<>> THEN <<>>
    ELSE parseCapXml(Head(xmlDocuments)) \o parseAll(Tail(xmlDocuments))

----------------------------------------------------------------------------
(* The proxy handler: canned signals, query values, responses *)

emptyWarningSignal(fetchedAt) ==
    [hasActiveWarning |-> FALSE,
     hasWarningWithin2Hours |-> FALSE,
     hasWarningLaterToday |-> FALSE,
     activeWarningSeverity |-> "null",
     nextWarningOnset |-> NullOnset,
     nextWarningSeverity |-> "null",
     fetchedAt |-> fetchedAt]

buildMockWarningSignal(scenario, n) ==
    CASE scenario = "active" ->
             [hasActiveWarning |-> TRUE,
              hasWarningWithin2Hours |-> FALSE,
              hasWarningLaterToday |-> FALSE,
              activeWarningSeverity |-> "moderate",
              nextWarningOnset |-> NullOnset,
              nextWarningSeverity |-> "null",
              fetchedAt |-> toISOString(n)]
      [] scenario = "soon" ->
             [hasActiveWarning |-> FALSE,
              hasWarningWithin2Hours |-> TRUE,
              hasWarningLaterToday |-> FALSE,
              activeWarningSeverity |-> "null",
              nextWarningOnset |-> toISOString(n + 60 * 60 * 1000),
              nextWarningSeverity |-> "moderate",
              fetchedAt |-> toISOString(n)]
      [] scenario = "later" ->
             [hasActiveWarning |-> FALSE,
              hasWarningWithin2Hours |-> FALSE,
              hasWarningLaterToday |-> TRUE,
              activeWarningSeverity |-> "null",
              nextWarningOnset |-> toISOString(n + 4 * 60 * 60 * 1000),
              nextWarningSeverity |-> "moderate",
              fetchedAt |-> toISOString(n)]
      [] OTHER -> emptyWarningSignal(toISOString(n))

\* a query parameter: absent, one string, or the strings of a repeated key
QUndefined == [kind |-> "undefined", value |-> "", values |-> <<>>]
QString(v) == [kind |-> "string", value |-> v, values |-> <<>>]
QArray(vs) == [kind |-> "array", value |-> "", values |-> vs]

firstQueryValue(value) ==
    IF value.kind = "array"
    THEN IF Len(value.values) = 0 THEN QUndefined ELSE QString(value.values[1])
    ELSE value

\* q === text
isText(q, text) == q.kind = "string" /\ q.value = text

MockScenarios == {"none", "active", "soon", "later"}

\* variant: the legacy warning parameter is looked at first
mockScenario_LegacyFirst(warningScenario, warning) ==
    IF isText(warning, "true") THEN "active"
    ELSE IF \E sc \in MockScenarios : isText(warningScenario, sc)
    THEN warningScenario.value
    ELSE "none"

\* the scenario the mock branch selects
mockScenario(warningScenario, warning) ==
    IF \E sc \in MockScenarios : isText(warningScenario, sc)
    THEN warningScenario.value
    ELSE IF isText(warning, "true") THEN "active"
    ELSE "none"

\* what res.status(...).json(...) / .end() sends
Respond(status, body) == [status |-> status, body |-> body]
SignalBody(sig) == [kind |-> "signal", signal |-> sig]
ErrorBody       == [kind |-> "error", signal |-> Null]
EndBody         == [kind |-> "end", signal |-> Null]

\* variant: the catch block reports the failure
catchResponse_BadGateway(n) == Respond(502, ErrorBody)

\* the catch block of the handler
catchResponse(n) == Respond(200, SignalBody(emptyWarningSignal(toISOString(n))))

\* { ...signal, fetchedAt: now.toISOString() }
withFetchedAt(sig, n) ==
    [hasActiveWarning |-> sig.hasActiveWarning,
     hasWarningWithin2Hours |-> sig.hasWarningWithin2Hours,
     hasWarningLaterToday |-> sig.hasWarningLaterToday,
     activeWarningSeverity |-> sig.activeWarningSeverity,
     nextWarningOnset |-> sig.nextWarningOnset,
     nextWarningSeverity |-> sig.nextWarningSeverity,
     fetchedAt |-> toISOString(n)]

----------------------------------------------------------------------------
(* useWeatherWarnings: the mock branch *)

EMPTY_WARNING_SIGNAL ==
    [hasActiveWarning |-> FALSE,
     hasWarningWithin2Hours |-> FALSE,
     hasWarningLaterToday |-> FALSE,
     activeWarningSeverity |-> "null",
     nextWarningOnset |-> NullOnset,
     nextWarningSeverity |-> "null",
     fetchedAt |-> NullOnset]

getClientMockWarningSignal(scenario, n) ==
    IF scenario = "active"
    THEN [hasActiveWarning |-> TRUE,
          hasWarningWithin2Hours |-> FALSE,
          hasWarningLaterToday |-> FALSE,
          activeWarningSeverity |-> "moderate",
          nextWarningOnset |-> NullOnset,
          nextWarningSeverity |-> "null",
          fetchedAt |-> toISOString(n)]
    ELSE IF scenario = "soon"
    THEN [hasActiveWarning |-> FALSE,
          hasWarningWithin2Hours |-> TRUE,
          hasWarningLaterToday |-> FALSE,
          activeWarningSeverity |-> "null",
          nextWarningOnset |-> toISOString(n + 60 * 60 * 1000),
          nextWarningSeverity |-> "moderate",
          fetchedAt |-> toISOString(n)]
    ELSE IF scenario = "later"
    THEN [hasActiveWarning |-> FALSE,
          hasWarningWithin2Hours |-> FALSE,
          hasWarningLaterToday |-> TRUE,
          activeWarningSeverity |-> "null",
          nextWarningOnset |-> toISOString(n + 4 * 60 * 60 * 1000),
          nextWarningSeverity |-> "moderate",
          fetchedAt |-> toISOString(n)]
    ELSE [EMPTY_WARNING_SIGNAL EXCEPT !.fetchedAt = toISOString(n)]

\* URLSearchParams.get over the values a key has in the query string, in
\* order: the first value, or null
searchGet(values) ==
    IF values = <<>> THEN [isNull |-> TRUE, value |-> ""]
    ELSE [isNull |-> FALSE, value |-> values[1]]

\* req.query over the same values: undefined, the string, or the array
queryOf(values) ==
    IF values = <<>> THEN QUndefined
    ELSE IF Len(values) = 1 THEN QString(values[1])
    ELSE QArray(values)

\* got === text
gotText(got, text) == ~got.isNull /\ got.value = text

\* variant: the legacy warning parameter is looked at first
clientMockScenario_LegacyFirst(warningScenario, warningParam) ==
    IF gotText(warningParam, "true") THEN "active"
    ELSE IF gotText(warningParam, "false") THEN "none"
    ELSE IF \E sc \in MockScenarios : gotText(warningScenario, sc)
    THEN warningScenario.value
    ELSE "none"

\* the scenario the queryFn hands to getClientMockWarningSignal
clientMockScenario(warningScenario, warningParam) ==
    IF \E sc \in MockScenarios : gotText(warningScenario, sc)
    THEN warningScenario.value
    ELSE IF gotText(warningParam, "true") THEN "active"
    ELSE IF gotText(warningParam, "false") THEN "none"
    ELSE "none"

----------------------------------------------------------------------------
(* useRetiroStatus *)

MaxInvocations == 3      \* fetchStatus invocations of one run

getStatusType(c) ==
    CASE c \in {1, 2, 3} -> "open"
      [] c = 4 -> "restricted"
      [] c \in {5, 6} -> "closed"
      [] OTHER -> "open"

\* the value of a run of decimal digits, most significant first
RECURSIVE decimalNumber(_)
decimalNumber(ds) ==
    IF ds = <<>> THEN 0
    ELSE 10 * decimalNumber(SubSeq(ds, 1, Len(ds) - 1)) + digitValue(ds[Len(ds)])

\* parseInt(text, 10): leading white space, an optional sign, then the
\* longest run of digits; NaN when that run is empty
parseIntDecimal(text) ==
    LET body == trim(text)
        signed == Len(body) > 0 /\ body[1] \in {"+", "-"}
        rest == IF signed THEN Tail(body) ELSE body
        stops == {i \in 1..Len(rest) : rest[i] \notin Digits}
        run == IF stops = {} THEN rest ELSE SubSeq(rest, 1, Least(stops) - 1)
    IN  IF run = <<>> THEN [nan |-> TRUE, value |-> 0]
        ELSE [nan |-> FALSE,
              value |-> IF signed /\ body[1] = "-" THEN 0 - decimalNumber(run)
                        ELSE decimalNumber(run)]

\* the RetiroStatus an invocation sets; by names the invocation (0 for the
\* pre-rendered initial data)
RetiroStatus(by, c) == [by |-> by, code |-> c, status |-> getStatusType(c)]

\* fetchRetiroStatus on a response whose Retiro feature carries
\* ALERTA_DESCRIPCION = alerta: alertCode = ALERTA_DESCRIPCION || 1
statusOfAlert(by, alerta) == RetiroStatus(by, IF alerta = 0 THEN 1 ELSE alerta)

\* the codes getMockData(mockCode) may give: code ?? a random 1..6, and 1 for
\* NaN or a code outside 1..6
mockCodes(codeParam) ==
    IF ~truthy(codeParam) THEN 1..6
    ELSE LET mockCode == parseIntDecimal(codeParam.text)
         IN  IF mockCode.nan \/ mockCode.value < 1 \/ mockCode.value > 6
             THEN {1}
             ELSE {mockCode.value}

\* mockParam === "true" || codeParam
isMockUrl(params) ==
    params.mock = Some(<<"t","r","u","e">>) \/ truthy(params.code)

----------------------------------------------------------------------------
(* fetchWithRetry *)

MaxRetries == 4      \* the largest retries argument tried

RETRY_DELAYS == <<1000, 2000, 4000>>
DefaultRetries == 3

\* CONFIG.RETRY_DELAYS[attempt]; past the end of the array the delay is
\* undefined and the timer fires at once
retryDelay(k) == IF k + 1 <= Len(RETRY_DELAYS) THEN RETRY_DELAYS[k + 1] ELSE 0

\* what a failed attempt throws: the rejection of fetch (network error, or
\* the abort at REQUEST_TIMEOUT), or Error("HTTP <status>") for a response
\* that is not ok
HttpError(status) == [kind |-> "http", status |-> status]
NetworkError  == [kind |-> "network", status |-> 0]
AbortError    == [kind |-> "abort", status |-> 0]
MaxRetriesExceeded == [kind |-> "maxRetries", status |-> 0]
FetchFailures == {NetworkError, AbortError, HttpError(500)}

----------------------------------------------------------------------------
(* Inputs *)

Hours == WindowStart..(WindowStart + WindowHours)
Nows  == {h * HourMs : h \in Hours}

\* every timestamp text of the window, in UTC and at +01:00
TimeTexts ==
    {UndefinedTime, EmptyTime, InvalidTime}
        \cup {Iso(h, o) : h \in Hours, o \in {0, 1}}

VI_Vientos == <<"V","I",";","V","i","e","n","t","o","s">>
NE_Nevadas == <<"N","E",";","N","e","v","a","d","a","s">>
TC_Temp    == <<"T","C",";","T","e","m","p">>

FenomenoTexts ==
    {Undefined, Some(<<>>), Some(VI_Vientos), Some(NE_Nevadas), Some(TC_Temp),
     Some(<<" ","v","i"," ",";","x">>),     \* " vi ;x"
     Some(<<"N","e">>),                     \* "Ne"
     Some(<<"V","I","E",";","x">>),         \* "VIE;x"
     Some(<<";","V","I">>),                 \* ";VI"
     Some(<<"P","R",";","V","I">>),         \* "PR;VI"
     Some(<<"V"," ","I",";","x">>),         \* "V I;x"
     Some(<<" ",";","N","E">>)}             \* " ;NE"

Zone722802 == <<"7","2","2","8","0","2">>
Zone722801 == <<"7","2","2","8","0","1">>

ZonaTexts ==
    {Undefined, Some(<<>>), Some(Zone722802), Some(Zone722801),
     Some(Zone722801 \o <<" ">> \o Zone722802),     \* "722801 722802"
     Some(Zone722802 \o <<"1">>),                   \* "7228021"
     Some(<<"7","2"," ","2","8","0","2">>),         \* "72 2802"
     Some(<<"7","2","2","8","0">>)}                 \* "72280"

Severe   == <<"S","E","V","E","R","E">>
Minor    == <<"m","i","n","o","r">>
Moderate == <<"m","o","d","e","r","a","t","e">>
Extreme  == <<"e","x","t","r","e","m","e">>
Bogus    == <<"b","o","g","u","s">>

Warning(f, z, on, ex, nv) ==
    [fenomeno |-> f, zona |-> z, onset |-> on, expires |-> ex, nivel |-> nv]

\* records for the activity filter: every pair of bounds
ActivityRecords ==
    {Warning(Some(VI_Vientos), Some(Zone722802), on, ex, Some(Minor)) :
        on \in TimeTexts, ex \in TimeTexts}

\* records for the relevance filter: every phenomenon and zone text
RelevanceRecords ==
    {Warning(f, z, on, UndefinedTime, nv) :
        f \in FenomenoTexts, z \in ZonaTexts,
        on \in {UndefinedTime, InvalidTime}, nv \in {Undefined, Some(Severe)}}

\* records for the signal builder: relevant records with each onset (two
\* texts for the same instant among them), an expiry on those that can be
\* active early in the window, and two irrelevant records of extreme severity
SignalOnsets ==
    {UndefinedTime, InvalidTime, Iso(WindowStart + 4, 1)}
        \cup {Iso(WindowStart + k, 0) : k \in {1, 3, 4, 7}}

SignalExpires(on) ==
    IF on \in {UndefinedTime, Iso(WindowStart + 1, 0)}
    THEN {UndefinedTime, Iso(WindowStart + 2, 0)}
    ELSE {UndefinedTime}

SignalRecords ==
    UNION {{Warning(Some(VI_Vientos), Some(Zone722802), on, ex, nv) :
                ex \in SignalExpires(on),
                nv \in {Some(Bogus), Some(Minor), Some(Severe)}} :
           on \in SignalOnsets}
    \cup {Warning(Some(TC_Temp), Some(Zone722802), UndefinedTime, UndefinedTime,
                  Some(Extreme)),
          Warning(Some(NE_Nevadas), Some(Zone722801), Iso(WindowStart + 1, 0),
                  UndefinedTime, Some(Extreme))}

\* the clock of the signal builder: the first hours of the window
SignalNows == {(WindowStart + k) * HourMs : k \in 0..4}

SeqsUpTo(S, n) == UNION {[1..k -> S] : k \in 0..n}

\* the signals the App can be handed
Severities == {"null", "minor", "moderate", "severe", "extreme"}

WeatherSignals ==
    [hasActiveWarning : BOOLEAN,
     hasWarningWithin2Hours : BOOLEAN,
     hasWarningLaterToday : BOOLEAN,
     activeWarningSeverity : {"null", "moderate"},
     nextWarningOnset : {NullOnset, Iso(WindowStart, 0)},
     nextWarningSeverity : {"null", "moderate"},
     fetchedAt : {Iso(WindowStart, 0)}]

----------------------------------------------------------------------------
(* Payloads of the datos request: how a byte buffer is put together *)

MaxEntries      == 2       \* entries of an archive
MaxTextSegments == 2       \* segments of a short plain text

Repeat(c, n) == [i \in 1..n |-> c]

\* a stretch of text, and whether it is one complete alert document
DocA  == [text |-> <<"<","a","l","e","r","t",">","a","<","/","a","l","e","r","t",">">>, doc |-> TRUE]
DocB  == [text |-> <<"<","A","L","E","R","T"," ","x",">","b","<","/","A","l","e","r","t",">">>, doc |-> TRUE]
Big   == [text |-> <<"<","a","l","e","r","t",">">> \o Repeat("x", 600) \o <<"<","/","a","l","e","r","t",">">>, doc |-> TRUE]
Junk  == [text |-> <<"<","a","l","e","r","t","s",">","z","<","/","a","l","e","r","t",">"," ","n","o","t"," ","x","m","l">>, doc |-> FALSE]
Blank == [text |-> <<" ","\n">>, doc |-> FALSE]
Open  == [text |-> <<"<","a","l","e","r","t",">","o">>, doc |-> FALSE]

RECURSIVE textOf(_)
textOf(segs) == IF segs = <<>> THEN <<>> ELSE Head(segs).text \o textOf(Tail(segs))

isDoc(seg) == seg.doc

\* the alert documents a run of segments holds, in order
docsOf(segs) ==
    LET ds == SelectSeq(segs, isDoc) IN [i \in 1..Len(ds) |-> ds[i].text]

\* Number.prototype.toString(8) of n >= 0
RECURSIVE toOctal(_)
toOctal(n) ==
    IF n < 8 THEN <<OctalDigits[n + 1]>>
    ELSE toOctal(n \div 8) \o <<OctalDigits[(n % 8) + 1]>>

padStart(text, width, c) ==
    IF Len(text) >= width THEN text ELSE Repeat(c, width - Len(text)) \o text

\* writeAsciiField: the first size bytes of value, written at offset start
writeAsciiField(target, start, size, value) ==
    LET bytes == encodeUtf8(value)
        n == IF Len(bytes) < size THEN Len(bytes) ELSE size
    IN  [i \in 1..Len(target) |->
            IF i > start /\ i <= start + n THEN bytes[i - start] ELSE target[i]]

EntryName == <<"a",".","x","m","l">>

\* the header block buildTar writes for an entry of contentLength bytes
tarHeader(name, contentLength) ==
    LET h0 == Zeros(TAR_BLOCK_SIZE)
        h1 == writeAsciiField(h0, 0, 100, name)
        h2 == writeAsciiField(h1, 100, 8, <<"0","0","0","0","7","7","7",NUL>>)
        h3 == writeAsciiField(h2, 108, 8, <<"0","0","0","0","0","0","0",NUL>>)
        h4 == writeAsciiField(h3, 116, 8, <<"0","0","0","0","0","0","0",NUL>>)
        h5 == writeAsciiField(h4, 124, 12,
                  padStart(toOctal(contentLength), 11, "0") \o <<NUL>>)
        h6 == writeAsciiField(h5, 136, 12, Repeat("0", 11) \o <<NUL>>)
    IN  writeAsciiField(h6, 156, 1, <<"0">>)

\* header, content, and zero padding up to the next block boundary
tarEntry(content) ==
    LET contentBytes == encodeUtf8(content)
        padding == (TAR_BLOCK_SIZE - (Len(contentBytes) % TAR_BLOCK_SIZE))
                       % TAR_BLOCK_SIZE
    IN  tarHeader(EntryName, Len(contentBytes)) \o contentBytes \o Zeros(padding)

RECURSIVE tarEntries(_)
tarEntries(entries) ==
    IF entries = <<>> THEN <<>>
    ELSE tarEntry(textOf(Head(entries))) \o tarEntries(Tail(entries))

\* buildTar: the entries, then two all-zero blocks
buildTar(entries) == tarEntries(entries) \o Zeros(2 * TAR_BLOCK_SIZE)

\* what an entry of an archive may hold
EntryContents ==
    { <<>>, <<DocA>>, <<Junk>>, <<DocA, Junk, DocB>>, <<Open>>, <<Big>> }

\* how an archive may end: as buildTar ends it, with a single zero block,
\* with nothing, with less than a block of zeros, or cut one block short
Endings == {"twoZeroBlocks", "oneZeroBlock", "none", "partial", "truncated"}

EndedArchive(entries, ending) ==
    LET body == tarEntries(entries)
    IN  CASE ending = "twoZeroBlocks" -> buildTar(entries)
          [] ending = "oneZeroBlock"  -> body \o Zeros(TAR_BLOCK_SIZE)
          [] ending = "none"          -> body
          [] ending = "partial"       -> body \o Zeros(100)
          [] ending = "truncated"     ->
                 IF body = <<>> THEN body
                 ELSE SubSeq(body, 1, Len(body) - TAR_BLOCK_SIZE)

\* twelve characters that a text may carry where a header keeps its size:
\* blanks, words, and digits that read as the octal number 512
SizeFieldTexts ==
    { Repeat(" ", 12),
      <<"i","o","n","=","\"","1",".","0","\""," ","e","n">>,
      <<"0","0","0","0","0","0","0","1","0","0","0"," ">> }

\* a plain text laid out so that sizeField stands at offset 124 and the tail
\* starts at offset 512, filled with blanks up to length
LaidOutText(head, sizeField, tail, length) ==
    LET a == textOf(head)
        b == a \o Repeat(" ", 124 - Len(a)) \o sizeField
        c == b \o Repeat(" ", TAR_BLOCK_SIZE - Len(b)) \o textOf(tail)
    IN  c \o Repeat(" ", length - Len(c))

\* size fields that do not read as a non-negative octal number: no octal
\* digit at all, and a negative number
BadSizeFields ==
    { Repeat("9", 11) \o <<NUL>>,
      <<"-">> \o Repeat("0", 9) \o <<"1">> \o <<NUL>> }

\* the entries that come before a header with such a size field
LeadingEntries == { <<DocA>>, <<Junk>> }

\* an archive whose entries are followed by a header with a bad size field,
\* then by the two end blocks
BadSizeArchive(entries, sizeField) ==
    tarEntries(entries)
        \o writeAsciiField(tarHeader(EntryName, 0), 124, 12, sizeField)
        \o Zeros(2 * TAR_BLOCK_SIZE)

TextSegments == {DocA, DocB, Junk, Blank}
TextHeads    == { <<DocA>>, <<Junk>> }
TextTails    == { <<>>, <<DocB>>, <<DocB, DocA>> }
TextLengths  == {600, 1024, 1536}
ZeroLengths  == {0, 100, 512, 700, 1024}

Payloads ==
    {[kind |-> "tar", entries |-> es, ending |-> e] :
        es \in SeqsUpTo(EntryContents, MaxEntries), e \in Endings}
    \cup {[kind |-> "text", segs |-> ss] :
        ss \in SeqsUpTo(TextSegments, MaxTextSegments)}
    \cup {[kind |-> "laidOut", head |-> h, sizeField |-> f, tail |-> t,
           length |-> n] :
        h \in TextHeads, f \in SizeFieldTexts, t \in TextTails,
        n \in TextLengths}
    \cup {[kind |-> "zeros", length |-> n] : n \in ZeroLengths}
    \cup {[kind |-> "badTar", entries |-> es, sizeField |-> f] :
        es \in SeqsUpTo(LeadingEntries, MaxEntries), f \in BadSizeFields}

\* the bytes of a payload
BufferOf(p) ==
    CASE p.kind = "tar"     -> EndedArchive(p.entries, p.ending)
      [] p.kind = "text"    -> encodeUtf8(textOf(p.segs))
      [] p.kind = "laidOut" ->
             encodeUtf8(LaidOutText(p.head, p.sizeField, p.tail, p.length))
      [] p.kind = "zeros"   -> Zeros(p.length)
      [] p.kind = "badTar"  -> BadSizeArchive(p.entries, p.sizeField)

\* what the datos response may declare itself to be
ContentTypes == {"application/x-tar", "application/xml"}

----------------------------------------------------------------------------
(* Requests and upstream answers of the proxy handler *)

\* a CAP alert with one info block
CapDoc(fenomeno, zona, onset, expires, severity) ==
    [text |->
        <<"<","a","l","e","r","t",">","<","i","n","f","o",">","<","s","e","v","e","r","i","t","y",">">> \o severity \o <<"<","/","s","e","v","e","r","i","t","y",">","<","o","n","s","e","t",">">> \o onset \o <<"<","/","o","n","s","e","t",">","<","e","x","p","i","r","e","s",">">> \o expires
        \o <<"<","/","e","x","p","i","r","e","s",">","<","e","v","e","n","t","C","o","d","e",">","<","v","a","l","u","e","N","a","m","e",">","A","E","M","E","T","-","M","e","t","e","o","a","l","e","r","t","a"," ","f","e","n","o","m","e","n","o","<","/","v","a","l","u","e","N","a","m","e",">","<","v","a","l","u","e",">">> \o fenomeno \o <<"<","/","v","a","l","u","e",">","<","/","e","v","e","n","t","C","o","d","e",">","<","g","e","o","c","o","d","e",">","<","v","a","l","u","e","N","a","m","e",">","A","E","M","E","T","-","M","e","t","e","o","a","l","e","r","t","a"," ","z","o","n","a","<","/","v","a","l","u","e","N","a","m","e",">","<","v","a","l","u","e",">">> \o zona \o <<"<","/","v","a","l","u","e",">","<","/","g","e","o","c","o","d","e",">","<","/","i","n","f","o",">","<","/","a","l","e","r","t",">">>,
     doc |-> TRUE]

\* wind over the Retiro zone from WindowStart + 1 to WindowStart + 3, and a
\* temperature alert over the same hours
CapVientos ==
    CapDoc(VI_Vientos, Zone722802, IsoText(WindowStart + 1, 0),
           IsoText(WindowStart + 4, 1), <<"M","o","d","e","r","a","t","e">>)
CapTemp ==
    CapDoc(TC_Temp, Zone722802, IsoText(WindowStart + 1, 0),
           IsoText(WindowStart + 4, 1), <<"S","e","v","e","r","e">>)

HandlerNows == {WindowStart * HourMs, (WindowStart + 2) * HourMs}

Methods == {"GET", "OPTIONS"}
MockValues == {QUndefined, QString("true"), QString("false"),
               QArray(<<"true", "false">>)}
WarningValues == {QUndefined, QString("true"), QString("false")}
WarningScenarioValues ==
    {QUndefined, QString("bogus")} \cup {QString(sc) : sc \in MockScenarios}
ApiKeys == {Undefined, Some(<<>>), Some(<<"k","e","y">>)}

Requests ==
    [method : Methods, mock : MockValues, warning : WarningValues,
     warningScenario : WarningScenarioValues]

\* how the first lookup settles: fetch rejects (network error, or the abort
\* at REQUEST_TIMEOUT_MS), a response that is not ok, a body that is not
\* JSON, or a JSON body with its estado and datos
DatosUrl == <<"h","t","t","p","s",":","/","/","d">>
InitialOutcomes ==
    {[kind |-> k, status |-> 0, estado |-> 0, datos |-> Undefined] :
        k \in {"reject", "badJson"}}
    \cup {[kind |-> "status", status |-> st, estado |-> 0, datos |-> Undefined] :
        st \in {401, 500}}
    \cup {[kind |-> "json", status |-> 200, estado |-> e, datos |-> d] :
        e \in {200, 404}, d \in {Undefined, Some(<<>>), Some(DatosUrl)}}

HandlerPayloads ==
    {[kind |-> "tar", entries |-> << <<CapVientos>> >>, ending |-> "twoZeroBlocks"],
     [kind |-> "tar", entries |-> << <<Junk>>, <<CapTemp, CapVientos>> >>,
      ending |-> "oneZeroBlock"],
     [kind |-> "text", segs |-> <<CapVientos>>],
     [kind |-> "text", segs |-> <<Junk>>],
     [kind |-> "text", segs |-> <<>>],
     [kind |-> "zeros", length |-> 512]}

HandlerContentTypes == {"application/x-tar", ""}

\* how the datos request settles: fetch rejects, a response that is not ok,
\* a body that cannot be read, or a body with its declared content type
DatosOutcomes ==
    {[kind |-> k, status |-> 0, payload |-> Null, contentType |-> ""] :
        k \in {"reject", "bodyReject"}}
    \cup {[kind |-> "status", status |-> st, payload |-> Null, contentType |-> ""] :
        st \in {404, 500}}
    \cup {[kind |-> "body", status |-> 200, payload |-> p, contentType |-> c] :
        p \in HandlerPayloads, c \in HandlerContentTypes}

----------------------------------------------------------------------------
(* The browser: URL parameters and answers of the status API *)

UrlParams ==
    [mock : {Undefined, Some(<<"t","r","u","e">>)},
     code : {Undefined, Some(<<>>), Some(<<"5">>), Some(<<"9">>), Some(<<"x">>)}]

\* ALERTA_DESCRIPCION of the Retiro feature in a good answer
AlertCodes == {0, 3, 5}

\* what a failed refresh throws: the error of fetchWithRetry after its last
\* attempt, or the missing Retiro feature
StatusFailures == {"HTTP 500", "Retiro park data not found in API response"}

InitialData == {Null, RetiroStatus(0, 1)}

----------------------------------------------------------------------------
(* CAP documents handed to parseCapXml *)

MaxNamedValues == 2      \* eventCode entries, and geocode entries, of a section

OpenTag(t)  == <<"<">> \o t \o <<">">>
CloseTag(t) == <<"<", "/">> \o t \o <<">">>
Element(t, body) == OpenTag(t) \o body \o CloseTag(t)

\* an eventCode or geocode entry: <valueName> and <value> are each optional
NamedEntry(name, value) == [name |-> name, value |-> value]
entryText(tag, e) ==
    Element(tag,
        (IF e.name.defined THEN Element(TagValueName, e.name.text) ELSE <<>>)
        \o (IF e.value.defined THEN Element(TagValue, e.value.text) ELSE <<>>))

RECURSIVE entriesText(_, _)
entriesText(tag, es) ==
    IF es = <<>> THEN <<>>
    ELSE entryText(tag, Head(es)) \o entriesText(tag, Tail(es))

infoText(info) ==
    Element(TagInfo,
        entriesText(TagEventCode, info.events)
        \o entriesText(TagGeocode, info.geos)
        \o Element(TagSeverity, info.severity))

RECURSIVE infosText(_)
infosText(infos) ==
    IF infos = <<>> THEN <<>> ELSE infoText(Head(infos)) \o infosText(Tail(infos))

TagAlert == <<"a","l","e","r","t">>
capText(infos) == Element(TagAlert, infosText(infos))

NameNivel    == Some(<<"M","e","t","e","o","a","l","e","r","t","a"," ","n","i","v","e","l">>)
NameFenomeno == Some(<<"M","e","t","e","o","a","l","e","r","t","a"," ","t","i","p","o"," ","d","e"," ","F","e","n","o","m","e","n","o">>)
NameUgc      == Some(<<"U","G","C">>)
NameZona     == Some(<<"A","E","M","E","T","-","M","e","t","e","o","a","l","e","r","t","a"," ","z","o","n","a">>)
NamePolygon  == Some(<<"p","o","l","y","g","o","n">>)
Amarillo     == <<"a","m","a","r","i","l","l","o">>
Zone28079    == <<"2","8","0","7","9">>

EventCodeEntries ==
    {NamedEntry(NameNivel, Some(Amarillo)),
     NamedEntry(NameFenomeno, Some(VI_Vientos)),
     NamedEntry(NameFenomeno, Some(<<" ">>)),
     NamedEntry(NameFenomeno, Undefined),
     NamedEntry(Undefined, Some(NE_Nevadas))}

GeocodeEntries ==
    {NamedEntry(NamePolygon, Some(Zone28079)),
     NamedEntry(NameUgc, Some(Zone722802)),
     NamedEntry(NameZona, Some(<<" ">> \o Zone722801))}

InfoSections ==
    [events : SeqsUpTo(EventCodeEntries, MaxNamedValues),
     geos : SeqsUpTo(GeocodeEntries, MaxNamedValues),
     severity : {Moderate}]

\* a section that may follow the first one
FollowingInfo ==
    [events |-> <<NamedEntry(Undefined, Some(Amarillo))>>,
     geos |-> <<>>,
     severity |-> Severe]

CapDocuments ==
    {<<>>}
    \cup {<<i>> : i \in InfoSections}
    \cup {<<i, FollowingInfo>> : i \in InfoSections}

----------------------------------------------------------------------------
(* Repeated calls of buildWarningSignal *)

MaxCalls == 3            \* calls of one run

\* now: Date = new Date(): the argument when one is supplied, else the clock
defaultNow_WallClock(supplied, n, clock) == clock

defaultNow(supplied, n, clock) == IF supplied THEN n ELSE clock

WindAtOne ==
    Warning(Some(VI_Vientos), Some(Zone722802), Iso(WindowStart + 1, 0),
            Iso(WindowStart + 4, 0), Some(Severe))
SnowAtThree ==
    Warning(Some(NE_Nevadas), Some(Zone722802), Iso(WindowStart + 3, 0),
            UndefinedTime, Some(Minor))

CallLists == {<<>>, <<WindAtOne>>, <<SnowAtThree, WindAtOne>>}
CallNows == {WindowStart * HourMs, (WindowStart + 2) * HourMs}

----------------------------------------------------------------------------
(* Records that differ in their expires values *)

\* the expires values a record may be given: absent, empty, unparseable,
\* before the window (past, and before any onset), and inside the window
ExpiresVariants ==
    {UndefinedTime, EmptyTime, InvalidTime, Iso(WindowStart - 1, 0),
     Iso(WindowStart + 2, 0)}

\* relevant records without an onset, with an onset one hour into the window
\* and with one three hours into it, each with every expires value
ExpiryRecords ==
    {Warning(Some(VI_Vientos), Some(Zone722802), UndefinedTime, ex,
             Some(Extreme)) : ex \in ExpiresVariants}
    \cup {Warning(Some(VI_Vientos), Some(Zone722802), Iso(WindowStart + 1, 0),
                  ex, Some(Severe)) : ex \in ExpiresVariants}
    \cup {Warning(Some(NE_Nevadas), Some(Zone722802), Iso(WindowStart + 3, 0),
                  ex, Some(Minor)) : ex \in ExpiresVariants}

ExpiryNows == {(WindowStart + k) * HourMs : k \in {0, 1, 2}}

----------------------------------------------------------------------------
(* Query strings of mock mode, as the page and the proxy both read them *)

MockModeValues == { <<"true">>, <<"true", "false">> }
WarningParamValues == { <<>>, <<"true">>, <<"false">>, <<"false", "true">> }
WarningScenarioParamValues ==
    { <<>>, <<"bogus">>, <<"">>, <<"Active">>, <<"soon", "active">> }
        \cup {<<sc>> : sc \in MockScenarios}

MockQueries ==
    [mock : MockModeValues, warning : WarningParamValues,
     warningScenario : WarningScenarioParamValues]

\* the request the proxy gets for a query string
requestOf(q) ==
    [method |-> "GET", mock |-> queryOf(q.mock), warning |-> queryOf(q.warning),
     warningScenario |-> queryOf(q.warningScenario)]

ClientNows == {WindowStart * HourMs, (WindowStart + 1) * HourMs}

----------------------------------------------------------------------------
(* One record watched over the window *)

HalfHourMs == HourMs \div 2

\* the instants of the window, half an hour apart
TimelineInstants ==
    {WindowStart * HourMs + k * HalfHourMs : k \in 0..(2 * WindowHours)}

\* a relevant record with a parseable onset before its parseable expires
TimelineRecords ==
    {Warning(Some(VI_Vientos), Some(Zone722802), Iso(WindowStart + h, o),
             Iso(WindowStart + h + d, o), Some(Moderate)) :
        h \in 1..(WindowHours - 2), o \in {0, 1}, d \in {1, 2}}

OpenOrRestricted == 1..4

----------------------------------------------------------------------------
(* State machine *)

Idle ==
    /\ pc = "start"
    /\ relevant = FALSE
    /\ active = FALSE
    /\ signal = Null
    /\ advisory = Null
    /\ primaryStatus = Null

NoWarningInput == warnings = <<>> /\ now = 0
NoExtractInput ==
    /\ payload = Null
    /\ buffer = <<>>
    /\ contentType = ""
    /\ tarDocs = Null
    /\ extracted = Null
NoRetryInput ==
    /\ retries = 0
    /\ attempt = 0
    /\ fetches = 0
    /\ waited = <<>>
    /\ failures = <<>>
    /\ thrown = Null
NoRequest ==
    /\ req = Null
    /\ apiKey = Undefined
    /\ keyRead = FALSE
    /\ fetchCount = 0
    /\ failure = "none"
    /\ response = Null
\* error === null, and an error message held
NoError == [isNull |-> TRUE, message |-> ""]
ErrorOf(m) == [isNull |-> FALSE, message |-> m]

NoClient ==
    /\ data = Null
    /\ loading = FALSE
    /\ error = NoError
    /\ isOffline = FALSE
    /\ online = TRUE
    /\ urlParams = Null
    /\ pending = {}
    /\ started = 0
    /\ succeeded = {}
    /\ clientNow = 0
    /\ clientSignal = Null
NoCalls == wallClock = 0 /\ calls = <<>>
NoStatusInput  == code = NoCode /\ weather = Null /\ advisoryState = "none"

\* the App holds any status code (or none yet) and any weather signal
Init ==
    /\ Idle
    /\ NoClient
    /\ NoCalls
    /\ NoRequest
    /\ NoRetryInput
    /\ NoExtractInput
    /\ NoWarningInput
    /\ code \in {NoCode} \cup StatusCodes
    /\ weather \in {Null} \cup WeatherSignals
    /\ advisoryState \in AdvisoryStates

InitActive ==
    /\ Idle
    /\ NoClient
    /\ NoCalls
    /\ NoRequest
    /\ NoRetryInput
    /\ NoExtractInput
    /\ NoStatusInput
    /\ warnings \in [1..1 -> ActivityRecords]
    /\ now \in Nows

InitRelevant ==
    /\ Idle
    /\ NoClient
    /\ NoCalls
    /\ NoRequest
    /\ NoRetryInput
    /\ NoExtractInput
    /\ NoStatusInput
    /\ warnings \in [1..1 -> RelevanceRecords]
    /\ now \in Nows

InitSignal ==
    /\ Idle
    /\ NoClient
    /\ NoCalls
    /\ NoRequest
    /\ NoRetryInput
    /\ NoExtractInput
    /\ NoStatusInput
    /\ warnings \in SeqsUpTo(SignalRecords, MaxWarnings)
    /\ now \in SignalNows

InitExtract ==
    /\ Idle
    /\ NoClient
    /\ NoCalls
    /\ NoRequest
    /\ NoRetryInput
    /\ NoWarningInput
    /\ NoStatusInput
    /\ payload \in Payloads
    /\ buffer = BufferOf(payload)
    /\ contentType \in ContentTypes
    /\ tarDocs = Null
    /\ extracted = Null

IsRelevantWarning ==
    /\ pc = "start"
    /\ Len(warnings) > 0
    /\ relevant' = isRelevantWarning(warnings[1])
    /\ pc' = "isRelevantWarning"
    /\ UNCHANGED <<clientVars, callVars, handlerVars, retryVars, extractVars, warnings, now, active, signal, code, weather, advisoryState,
                   advisory, primaryStatus>>

IsWarningActive ==
    /\ pc = "start"
    /\ Len(warnings) > 0
    /\ active' = isWarningActive(warnings[1], now)
    /\ pc' = "isWarningActive"
    /\ UNCHANGED <<clientVars, callVars, handlerVars, retryVars, extractVars, warnings, now, relevant, signal, code, weather, advisoryState,
                   advisory, primaryStatus>>

BuildWarningSignal ==
    /\ pc = "start"
    /\ signal' = buildWarningSignal(warnings, now)
    /\ pc' = "buildWarningSignal"
    /\ UNCHANGED <<clientVars, callVars, handlerVars, retryVars, extractVars, warnings, now, relevant, active, code, weather, advisoryState,
                   advisory, primaryStatus>>

ResolveClosureAdvisory ==
    /\ pc = "start"
    /\ advisory' = resolveClosureAdvisory(code, weather)
    /\ pc' = "resolveClosureAdvisory"
    /\ UNCHANGED <<clientVars, callVars, handlerVars, retryVars, extractVars, warnings, now, relevant, active, signal, code, weather,
                   advisoryState, primaryStatus>>

ResolvePrimaryStatus ==
    /\ pc = "start"
    /\ primaryStatus' = resolvePrimaryStatus(code, advisoryState)
    /\ pc' = "resolvePrimaryStatus"
    /\ UNCHANGED <<clientVars, callVars, handlerVars, retryVars, extractVars, warnings, now, relevant, active, signal, code, weather,
                   advisoryState, advisory>>

\* App.tsx: the advisory is resolved, then the primary status from its state
App ==
    /\ pc = "start"
    /\ advisory' = resolveClosureAdvisory(code, weather)
    /\ primaryStatus' = appPrimaryStatus(code, advisory')
    /\ pc' = "App"
    /\ UNCHANGED <<clientVars, callVars, handlerVars, retryVars, extractVars, warnings, now, relevant, active, signal, code, weather,
                   advisoryState>>

\* the archive reader applied to the buffer on its own
ExtractXmlDocumentsFromTarBuffer ==
    /\ pc = "start"
    /\ tarDocs' = tarRead(buffer)
    /\ pc' = "extractXmlDocumentsFromTarBuffer"
    /\ UNCHANGED <<clientVars, callVars, handlerVars, retryVars, classifyVars, payload, buffer, contentType, extracted>>

\* the document extractor; tarDocs keeps what its call of the reader gave
ExtractXmlDocuments ==
    /\ pc = "start"
    /\ tarDocs' = tarRead(buffer)
    /\ extracted' = extractXmlDocuments(buffer, contentType)
    /\ pc' = "extractXmlDocuments"
    /\ UNCHANGED <<clientVars, callVars, handlerVars, retryVars, classifyVars, payload, buffer, contentType>>

InitRetry ==
    /\ Idle
    /\ NoClient
    /\ NoCalls
    /\ NoRequest
    /\ NoWarningInput
    /\ NoStatusInput
    /\ NoExtractInput
    /\ retries \in 0..MaxRetries
    /\ attempt = 0
    /\ fetches = 0
    /\ waited = <<>>
    /\ failures = <<>>
    /\ thrown = Null

\* fetchWithRetry is called: the loop is entered, or skipped when retries
\* is 0 and the statement after it throws
CallFetchWithRetry ==
    /\ pc = "start"
    /\ IF attempt < retries
       THEN pc' = "fetching" /\ thrown' = thrown
       ELSE pc' = "fetchWithRetry threw" /\ thrown' = MaxRetriesExceeded
    /\ UNCHANGED <<clientVars, callVars, handlerVars, classifyVars, extractVars, retries, attempt, fetches,
                   waited, failures>>

\* the awaited fetch gives a response that is ok: it is returned
FetchSucceeds ==
    /\ pc = "fetching"
    /\ fetches' = fetches + 1
    /\ pc' = "fetchWithRetry returned"
    /\ UNCHANGED <<clientVars, callVars, handlerVars, classifyVars, extractVars, retries, attempt, waited,
                   failures, thrown>>

\* the attempt fails: the catch block rethrows on the last attempt and
\* otherwise starts the timer of this attempt's delay
FetchFails ==
    /\ pc = "fetching"
    /\ \E caught \in FetchFailures :
        /\ fetches' = fetches + 1
        /\ failures' = Append(failures, caught)
        /\ IF attempt = retries - 1
           THEN pc' = "fetchWithRetry threw" /\ thrown' = caught
           ELSE pc' = "backoff" /\ thrown' = thrown
    /\ UNCHANGED <<clientVars, callVars, handlerVars, classifyVars, extractVars, retries, attempt, waited>>

\* the delay has passed: attempt++ and, the loop test holding, the next fetch
BackoffElapses ==
    /\ pc = "backoff"
    /\ waited' = Append(waited, retryDelay(attempt))
    /\ attempt' = attempt + 1
    /\ pc' = "fetching"
    /\ UNCHANGED <<clientVars, callVars, handlerVars, classifyVars, extractVars, retries, fetches, failures,
                   thrown>>

InitHandler ==
    /\ Idle
    /\ NoClient
    /\ NoCalls
    /\ NoStatusInput
    /\ NoExtractInput
    /\ NoRetryInput
    /\ warnings = <<>>
    /\ now \in HandlerNows
    /\ req \in Requests
    /\ apiKey \in ApiKeys
    /\ keyRead = FALSE
    /\ fetchCount = 0
    /\ failure = "none"
    /\ response = Null

\* the handler up to its first await: the OPTIONS answer, the mock branch,
\* the 503 for a missing API key, or the first lookup sent
HandlerReceives ==
    /\ pc = "start"
    /\ req # Null
    /\ LET mock == firstQueryValue(req.mock)
           warning == firstQueryValue(req.warning)
           warningScenario == firstQueryValue(req.warningScenario)
       IN  IF req.method = "OPTIONS"
           THEN /\ response' = Respond(200, EndBody)
                /\ pc' = "responded"
                /\ UNCHANGED <<keyRead, fetchCount>>
           ELSE IF isText(mock, "true")
           THEN /\ response' =
                       Respond(200, SignalBody(buildMockWarningSignal(
                           mockScenario(warningScenario, warning), now)))
                /\ pc' = "responded"
                /\ UNCHANGED <<keyRead, fetchCount>>
           ELSE IF ~truthy(apiKey)
           THEN /\ response' = Respond(503, ErrorBody)
                /\ pc' = "responded"
                /\ keyRead' = TRUE
                /\ UNCHANGED fetchCount
           ELSE /\ keyRead' = TRUE
                /\ fetchCount' = fetchCount + 1
                /\ pc' = "awaiting initial"
                /\ UNCHANGED response
    /\ UNCHANGED <<clientVars, callVars, retryVars, extractVars, warnings, now, relevant, active,
                   signal, code, weather, advisoryState, advisory,
                   primaryStatus, req, apiKey, failure>>

\* the first lookup settles: any failure goes to the catch block, a good
\* answer sends the datos request
InitialSettles ==
    /\ pc = "awaiting initial"
    /\ \E o \in InitialOutcomes :
        LET failed ==
                CASE o.kind = "reject" -> "initial fetch"
                  [] o.kind = "status" -> "initial not ok"
                  [] o.kind = "badJson" -> "initial json"
                  [] o.estado # 200 -> "estado"
                  [] ~truthy(o.datos) -> "datos missing"
                  [] OTHER -> "none"
        IN  IF failed # "none"
            THEN /\ failure' = failed
                 /\ response' = catchResponse(now)
                 /\ pc' = "responded"
                 /\ UNCHANGED fetchCount
            ELSE /\ fetchCount' = fetchCount + 1
                 /\ pc' = "awaiting datos"
                 /\ UNCHANGED <<failure, response>>
    /\ UNCHANGED <<clientVars, callVars, retryVars, extractVars, warnings, now, relevant, active,
                   signal, code, weather, advisoryState, advisory,
                   primaryStatus, req, apiKey, keyRead>>

\* the datos request settles: any failure goes to the catch block, a body is
\* extracted, parsed, classified and sent
DatosSettles ==
    /\ pc = "awaiting datos"
    /\ \E o \in DatosOutcomes :
        IF o.kind # "body"
        THEN /\ failure' = CASE o.kind = "reject" -> "datos fetch"
                             [] o.kind = "status" -> "datos not ok"
                             [] OTHER -> "datos body"
             /\ response' = catchResponse(now)
             /\ UNCHANGED <<extractVars, warnings, signal>>
        ELSE /\ payload' = o.payload
             /\ buffer' = BufferOf(o.payload)
             /\ contentType' = o.contentType
             /\ tarDocs' = tarRead(buffer')
             /\ extracted' = extractXmlDocuments(buffer', contentType')
             /\ IF extracted'.threw
                THEN /\ failure' = "extraction"
                     /\ response' = catchResponse(now)
                     /\ UNCHANGED <<warnings, signal>>
                ELSE /\ warnings' = parseAll(extracted'.docs)
                     /\ signal' = buildWarningSignal(warnings', now)
                     /\ response' =
                            Respond(200, SignalBody(withFetchedAt(signal', now)))
                     /\ UNCHANGED failure
    /\ pc' = "responded"
    /\ UNCHANGED <<clientVars, callVars, retryVars, now, relevant, active, code, weather,
                   advisoryState, advisory, primaryStatus, req, apiKey,
                   keyRead, fetchCount>>

InitHook ==
    /\ Idle
    /\ NoCalls
    /\ NoRequest
    /\ NoWarningInput
    /\ NoStatusInput
    /\ NoExtractInput
    /\ NoRetryInput
    /\ data \in InitialData
    /\ loading = (data = Null)
    /\ error = NoError
    /\ online \in BOOLEAN
    /\ isOffline = ~online
    /\ urlParams \in UrlParams
    /\ pending = {}
    /\ started = 0
    /\ succeeded = {}
    /\ clientNow = 0
    /\ clientSignal = Null

\* fetchStatus up to its first await, navigator.onLine being isOnline: the
\* offline return, or the flags set and the request (or the mock delay)
\* left pending
FetchStatus(isOnline) ==
    /\ started < MaxInvocations
    /\ started' = started + 1
    /\ IF ~isOnline
       THEN /\ isOffline' = TRUE
            /\ error' = ErrorOf("offline")
            /\ loading' = FALSE
            /\ pending' = pending
       ELSE /\ isOffline' = FALSE
            /\ loading' = IF data = Null THEN TRUE ELSE loading
            /\ error' = NoError
            /\ pending' = pending \cup
                   {[id |-> started + 1,
                     kind |-> IF isMockUrl(urlParams) THEN "mock" ELSE "fetch"]}
    /\ UNCHANGED <<data, succeeded>>

HookFrame ==
    UNCHANGED <<callVars, handlerVars, retryVars, extractVars, classifyVars, urlParams,
                clientNow, clientSignal>>

\* the effect of the first render
Mount ==
    /\ pc = "start"
    /\ urlParams # Null
    /\ pc' = "mounted"
    /\ FetchStatus(online)
    /\ UNCHANGED online
    /\ HookFrame

\* setInterval(fetchStatus, 60000)
IntervalTick ==
    /\ pc = "mounted"
    /\ FetchStatus(online)
    /\ UNCHANGED <<pc, online>>
    /\ HookFrame

\* the refetch handed to the caller
Refetch ==
    /\ pc = "mounted"
    /\ FetchStatus(online)
    /\ UNCHANGED <<pc, online>>
    /\ HookFrame

\* the browser comes back online: handleOnline
OnlineEvent ==
    /\ pc = "mounted"
    /\ ~online
    /\ online' = TRUE
    /\ FetchStatus(TRUE)
    /\ UNCHANGED pc
    /\ HookFrame

\* the browser goes offline: handleOffline
OfflineEvent ==
    /\ pc = "mounted"
    /\ online
    /\ online' = FALSE
    /\ isOffline' = TRUE
    /\ UNCHANGED <<pc, data, loading, error, pending, started, succeeded>>
    /\ HookFrame

\* variant: a failed refresh clears the data held
StatusFetchFails_ClearsData ==
    /\ pc = "mounted"
    /\ \E p \in pending :
        /\ p.kind = "fetch"
        /\ pending' = pending \ {p}
        /\ \E m \in StatusFailures : error' = ErrorOf(m)
    /\ data' = Null
    /\ loading' = FALSE
    /\ UNCHANGED <<pc, isOffline, online, started, succeeded>>
    /\ HookFrame

\* fetchRetiroStatus throws: the catch block, then finally
StatusFetchFails ==
    /\ pc = "mounted"
    /\ \E p \in pending :
        /\ p.kind = "fetch"
        /\ pending' = pending \ {p}
        /\ \E m \in StatusFailures : error' = ErrorOf(m)
    /\ loading' = FALSE
    /\ UNCHANGED <<pc, data, isOffline, online, started, succeeded>>
    /\ HookFrame

\* fetchRetiroStatus resolves: setData(result), then finally
StatusFetchSucceeds ==
    /\ pc = "mounted"
    /\ \E p \in pending :
        /\ p.kind = "fetch"
        /\ pending' = pending \ {p}
        /\ succeeded' = succeeded \cup {p.id}
        /\ \E alerta \in AlertCodes : data' = statusOfAlert(p.id, alerta)
    /\ loading' = FALSE
    /\ UNCHANGED <<pc, error, isOffline, online, started>>
    /\ HookFrame

\* the 500 ms of mock mode have passed: setData(getMockData(mockCode)).
\* Timers of equal delay fire in the order they were set.
MockDelayElapses ==
    /\ pc = "mounted"
    /\ \E p \in pending :
        /\ p.kind = "mock"
        /\ \A q \in pending : q.id >= p.id
        /\ pending' = pending \ {p}
        /\ succeeded' = succeeded \cup {p.id}
        /\ \E c \in mockCodes(urlParams.code) : data' = RetiroStatus(p.id, c)
    /\ loading' = FALSE
    /\ UNCHANGED <<pc, error, isOffline, online, started>>
    /\ HookFrame

InitParse ==
    /\ Idle
    /\ NoClient
    /\ NoCalls
    /\ NoRequest
    /\ NoRetryInput
    /\ NoWarningInput
    /\ NoStatusInput
    /\ payload \in {[kind |-> "cap", infos |-> d] : d \in CapDocuments}
    /\ buffer = <<>>
    /\ contentType = ""
    /\ tarDocs = Null
    /\ extracted = Null

\* parseCapXml on the text of the document
ParseCapXml ==
    /\ pc = "start"
    /\ payload # Null /\ payload.kind = "cap"
    /\ warnings' = parseCapXml(capText(payload.infos))
    /\ pc' = "parseCapXml"
    /\ UNCHANGED <<clientVars, callVars, handlerVars, retryVars, extractVars, now,
                   relevant, active, signal, code, weather, advisoryState,
                   advisory, primaryStatus>>

InitExpires ==
    /\ Idle
    /\ NoClient
    /\ NoCalls
    /\ NoRequest
    /\ NoRetryInput
    /\ NoExtractInput
    /\ NoStatusInput
    /\ warnings \in SeqsUpTo(ExpiryRecords, MaxWarnings)
    /\ now \in ExpiryNows

InitCalls ==
    /\ Idle
    /\ NoClient
    /\ NoRequest
    /\ NoRetryInput
    /\ NoExtractInput
    /\ NoWarningInput
    /\ NoStatusInput
    /\ wallClock = WindowStart * HourMs
    /\ calls = <<>>

\* one call of buildWarningSignal, with or without its second argument;
\* calls keeps the arguments, the clock at the call and the result
CallBuildWarningSignal ==
    /\ Len(calls) < MaxCalls
    /\ \E ws \in CallLists, supplied \in BOOLEAN, n \in CallNows :
        LET at == defaultNow(supplied, n, wallClock)
        IN  /\ warnings' = ws
            /\ now' = at
            /\ signal' = buildWarningSignal(ws, at)
            /\ calls' = Append(calls,
                   [warnings |-> ws, supplied |-> supplied, now |-> n,
                    clock |-> wallClock, signal |-> buildWarningSignal(ws, at)])
    /\ pc' = "buildWarningSignal"
    /\ UNCHANGED <<clientVars, handlerVars, retryVars, extractVars, wallClock,
                   relevant, active, code, weather, advisoryState, advisory,
                   primaryStatus>>

\* time passes between calls
ClockTicks ==
    /\ wallClock < (WindowStart + 2) * HourMs
    /\ wallClock' = wallClock + 2 * HourMs
    /\ UNCHANGED <<clientVars, handlerVars, retryVars, extractVars,
                   classifyVars, pc, calls>>

InitMock ==
    /\ Idle
    /\ NoCalls
    /\ NoStatusInput
    /\ NoExtractInput
    /\ NoRetryInput
    /\ warnings = <<>>
    /\ now \in HandlerNows
    /\ urlParams \in MockQueries
    /\ req = requestOf(urlParams)
    /\ apiKey = Undefined
    /\ keyRead = FALSE
    /\ fetchCount = 0
    /\ failure = "none"
    /\ response = Null
    /\ data = Null
    /\ loading = FALSE
    /\ error = NoError
    /\ isOffline = FALSE
    /\ online = TRUE
    /\ pending = {}
    /\ started = 0
    /\ succeeded = {}
    /\ clientNow \in ClientNows
    /\ clientSignal = Null

\* the queryFn of useWeatherWarnings in the browser, in mock mode
QueryWeatherWarnings ==
    /\ clientSignal = Null
    /\ urlParams # Null
    /\ gotText(searchGet(urlParams.mock), "true")
    /\ clientSignal' =
           getClientMockWarningSignal(
               clientMockScenario(searchGet(urlParams.warningScenario),
                                  searchGet(urlParams.warning)),
               clientNow)
    /\ UNCHANGED <<callVars, handlerVars, retryVars, extractVars, classifyVars,
                   pc, data, loading, error, isOffline, online, urlParams,
                   pending, started, succeeded, clientNow>>

InitTimeline ==
    /\ Idle
    /\ NoClient
    /\ NoCalls
    /\ NoRequest
    /\ NoRetryInput
    /\ NoExtractInput
    /\ \E w \in TimelineRecords : warnings = <<w>>
    /\ now \in TimelineInstants
    /\ code \in OpenOrRestricted
    /\ weather = Null
    /\ advisoryState = "none"

\* one refresh of the page: the proxy builds the signal on its clock and the
\* page resolves the advisory from it; the first refresh is made at the
\* initial instant, every other one later than the one before
Poll ==
    /\ \E t \in TimelineInstants :
        /\ IF pc = "start" THEN t = now ELSE t > now
        /\ now' = t
        /\ signal' = buildWarningSignal(warnings, t)
        /\ weather' = withFetchedAt(buildWarningSignal(warnings, t), t)
        /\ advisory' =
               resolveClosureAdvisory(
                   code, withFetchedAt(buildWarningSignal(warnings, t), t))
    /\ pc' = "polled"
    /\ UNCHANGED <<clientVars, callVars, handlerVars, retryVars, extractVars,
                   warnings, relevant, active, code, advisoryState,
                   primaryStatus>>

Next == ResolveClosureAdvisory \/ ResolvePrimaryStatus \/ App
NextActive == IsWarningActive
NextRelevant == IsRelevantWarning
NextSignal == BuildWarningSignal
NextExtract == ExtractXmlDocumentsFromTarBuffer \/ ExtractXmlDocuments
NextHandler == HandlerReceives \/ InitialSettles \/ DatosSettles
NextHook ==
    \/ Mount \/ IntervalTick \/ Refetch \/ OnlineEvent \/ OfflineEvent
    \/ StatusFetchFails \/ StatusFetchSucceeds \/ MockDelayElapses
NextParse == ParseCapXml
NextCalls == CallBuildWarningSignal \/ ClockTicks
NextMock == HandlerReceives \/ QueryWeatherWarnings
NextTimeline == Poll
NextRetry ==
    CallFetchWithRetry \/ FetchSucceeds \/ FetchFails \/ BackoffElapses

Spec         == Init /\ [][Next]_vars
SpecActive   == InitActive /\ [][NextActive]_vars
SpecRelevant == InitRelevant /\ [][NextRelevant]_vars
SpecSignal   == InitSignal /\ [][NextSignal]_vars
SpecExtract  == InitExtract /\ [][NextExtract]_vars
SpecRetry    == InitRetry /\ [][NextRetry]_vars
SpecHandler  == InitHandler /\ [][NextHandler]_vars
SpecParse    == InitParse /\ [][NextParse]_vars
SpecCalls    == InitCalls /\ [][NextCalls]_vars
SpecExpires  == InitExpires /\ [][NextSignal]_vars
SpecMock     == InitMock /\ [][NextMock]_vars
SpecTimeline == InitTimeline /\ [][NextTimeline]_vars
SpecHook     == InitHook /\ [][NextHook]_vars

----------------------------------------------------------------------------
(* Claims about the resolvers (specification Spec) *)

OpenCodes == 1..4

\* C1: for every official code >= 5 and every warning signal,
\* resolveClosureAdvisory returns state none with a null nextWarningOnset.
C1_ClosedCodeSuppressesAdvisory ==
    (pc = "resolveClosureAdvisory" /\ code >= 5)
        => advisory = [state |-> "none", nextWarningOnset |-> NullOnset]

C1_Witness ==
    /\ pc = "resolveClosureAdvisory"
    /\ code >= 5
    /\ weather # Null
    /\ weather.hasActiveWarning
    /\ weather.nextWarningOnset # NullOnset
    /\ advisory.state = "none"

\* C2: for every official code >= 5 and every advisory state,
\* resolvePrimaryStatus returns mode official with the code as theme.
C2_ClosedCodeAlwaysOfficial ==
    (pc = "resolvePrimaryStatus" /\ code >= 5)
        => primaryStatus = [mode |-> "official", themeCode |-> code]

C2_Witness ==
    /\ pc = "resolvePrimaryStatus"
    /\ code = 6
    /\ advisoryState = "likely_closed_now"
    /\ primaryStatus.mode = "official"

\* C3: for codes 1..4 the advisory follows the precedence active, then
\* within 2 hours, then later today, then none; an absent code or signal
\* gives none.
C3_AdvisoryPrecedence ==
    pc = "resolveClosureAdvisory" =>
        /\ (code = NoCode \/ weather = Null) => advisory.state = "none"
        /\ (code \in OpenCodes /\ weather # Null) =>
            /\ weather.hasActiveWarning => advisory.state = "likely_closed_now"
            /\ (~weather.hasActiveWarning /\ weather.hasWarningWithin2Hours)
                   => advisory.state = "closing_soon"
            /\ (~weather.hasActiveWarning /\ ~weather.hasWarningWithin2Hours
                   /\ weather.hasWarningLaterToday)
                   => advisory.state = "closing_later_today"
            /\ (~weather.hasActiveWarning /\ ~weather.hasWarningWithin2Hours
                   /\ ~weather.hasWarningLaterToday)
                   => advisory.state = "none"

C3_Witness ==
    /\ pc = "resolveClosureAdvisory"
    /\ code \in OpenCodes
    /\ weather # Null
    /\ weather.hasActiveWarning
    /\ weather.hasWarningWithin2Hours
    /\ weather.hasWarningLaterToday
    /\ advisory.state = "likely_closed_now"

\* C4: an absent code displays {official, 1}; a code in 1..4 displays
\* {predicted_closed, 6} for likely_closed_now, {closing, 4} for
\* closing_soon and {official, code} for closing_later_today and none.
C4_PrimaryStatusTable ==
    pc = "resolvePrimaryStatus" =>
        /\ code = NoCode => primaryStatus = [mode |-> "official", themeCode |-> 1]
        /\ code \in OpenCodes =>
            /\ advisoryState = "likely_closed_now"
                   => primaryStatus = [mode |-> "predicted_closed", themeCode |-> 6]
            /\ advisoryState = "closing_soon"
                   => primaryStatus = [mode |-> "closing", themeCode |-> 4]
            /\ advisoryState \in {"closing_later_today", "none"}
                   => primaryStatus = [mode |-> "official", themeCode |-> code]

C4_Witness ==
    /\ pc = "resolvePrimaryStatus"
    /\ code \in OpenCodes
    /\ code # 1
    /\ advisoryState = "closing_later_today"
    /\ primaryStatus = [mode |-> "official", themeCode |-> code]

\* C5: composed as the App does, codes 5-6 display official with their own
\* theme; codes 1-4 display predicted_closed exactly when the signal has an
\* active warning, closing exactly when it has none but one within 2 hours,
\* and otherwise official with the code's own theme.
C5_AppDisplay ==
    (pc = "App" /\ weather # Null) =>
        /\ code >= 5 => primaryStatus = [mode |-> "official", themeCode |-> code]
        /\ code \in OpenCodes =>
            /\ primaryStatus.mode = "predicted_closed" <=> weather.hasActiveWarning
            /\ primaryStatus.mode = "closing"
                   <=> (~weather.hasActiveWarning /\ weather.hasWarningWithin2Hours)
            /\ (~weather.hasActiveWarning /\ ~weather.hasWarningWithin2Hours)
                   => primaryStatus = [mode |-> "official", themeCode |-> code]

C5_Witness ==
    /\ pc = "App"
    /\ code \in OpenCodes
    /\ weather # Null
    /\ ~weather.hasActiveWarning
    /\ weather.hasWarningWithin2Hours
    /\ weather.hasWarningLaterToday
    /\ primaryStatus = [mode |-> "closing", themeCode |-> 4]

----------------------------------------------------------------------------
(* Claims about the filters (specifications SpecActive, SpecRelevant) *)

\* what a timestamp property is, read without the code's helpers
Absent(ts)   == ts.form = "undefined"
Parses(ts)   == ts.form = "iso"
InstantOf(ts) == (ts.hour - ts.off) * HourMs

\* C6: isWarningActive(record, now) is true if and only if (onset is absent
\* or parses to an instant <= now) and (expires is absent or parses to an
\* instant > now); a bound that is present but unparseable makes the record
\* not active.
C6_ActiveIffBoundsBracketNow ==
    pc = "isWarningActive" =>
        LET w == warnings[1]
        IN  active <=>
                /\ Absent(w.onset) \/ (Parses(w.onset) /\ InstantOf(w.onset) <= now)
                /\ Absent(w.expires) \/ (Parses(w.expires) /\ InstantOf(w.expires) > now)

\* the text before the first ";" of s, with the white space around it
\* removed and without regard to case, is the code c
LeadingCodeIs(s, c) ==
    \E a \in 1..Len(s) :
        LET b == a + Len(c) - 1
        IN  /\ b <= Len(s)
            /\ \A k \in 1..Len(c) : toUpperCaseChar(s[a + k - 1]) = c[k]
            /\ \A i \in 1..(a - 1) : s[i] \in WhiteSpace
            /\ \/ \A i \in (b + 1)..Len(s) : s[i] \in WhiteSpace
               \/ \E e \in (b + 1)..Len(s) :
                      /\ s[e] = ";"
                      /\ \A i \in (b + 1)..(e - 1) : s[i] \in WhiteSpace

\* the text z has the six characters 722802 at some position
ContainsRetiroZone(z) ==
    \E i \in 1..Len(z) :
        /\ i + 5 <= Len(z)
        /\ <<z[i], z[i+1], z[i+2], z[i+3], z[i+4], z[i+5]>>
               = <<"7","2","2","8","0","2">>

\* C7: isRelevantWarning(record) is true if and only if the phenomenon is
\* present, the zone contains 722802 as a substring and the phenomenon's
\* leading segment, trimmed and upper-cased, is VI or NE; no other field of
\* the record matters.
C7_RelevantIffZoneAndCode ==
    pc = "isRelevantWarning" =>
        LET w == warnings[1]
        IN  relevant <=>
                /\ w.fenomeno.defined
                /\ w.zona.defined
                /\ ContainsRetiroZone(w.zona.text)
                /\ \/ LeadingCodeIs(w.fenomeno.text, <<"V","I">>)
                   \/ LeadingCodeIs(w.fenomeno.text, <<"N","E">>)

C7_Witness ==
    /\ pc = "isRelevantWarning"
    /\ relevant
    /\ warnings[1].fenomeno = Some(<<" ","v","i"," ",";","x">>)
    /\ warnings[1].zona = Some(Zone722801 \o <<" ">> \o Zone722802)
    /\ warnings[1].onset = InvalidTime

----------------------------------------------------------------------------
(* Claims about the signal builder (specification SpecSignal) *)

SeverityOrder == <<"minor", "moderate", "severe", "extreme">>
RankOf(sev) == CHOOSE r \in 1..Len(SeverityOrder) : SeverityOrder[r] = sev

\* the records of the list that pass both filters at now
RelevantActive == {i \in 1..Len(warnings) :
                      isRelevantWarning(warnings[i]) /\ isWarningActive(warnings[i], now)}

\* the recognised severities among them
ActiveSeverities == {normalizeSeverity(warnings[i].nivel) : i \in RelevantActive} \ {"null"}

\* C8: hasActiveWarning is true exactly when some record is both relevant
\* and active at now, and activeWarningSeverity is the highest severity
\* among those records, null when none of them has a recognised severity.
C8_ActiveFlagAndSeverity ==
    pc = "buildWarningSignal" =>
        /\ signal.hasActiveWarning <=> RelevantActive # {}
        /\ ActiveSeverities = {} => signal.activeWarningSeverity = "null"
        /\ ActiveSeverities # {} =>
               /\ signal.activeWarningSeverity \in ActiveSeverities
               /\ \A sev \in ActiveSeverities :
                      RankOf(sev) <= RankOf(signal.activeWarningSeverity)

C8_Witness ==
    /\ pc = "buildWarningSignal"
    /\ \E i, j \in 1..Len(warnings) :
           /\ ~isRelevantWarning(warnings[i])
           /\ isWarningActive(warnings[i], now)
           /\ warnings[i].nivel = Some(Extreme)
           /\ j \in RelevantActive
           /\ warnings[j].nivel = Some(Minor)
    /\ signal.hasActiveWarning
    /\ signal.activeWarningSeverity = "minor"

\* the relevant records whose onset parses to an instant after now
Upcoming == {i \in 1..Len(warnings) :
                /\ isRelevantWarning(warnings[i])
                /\ Parses(warnings[i].onset)
                /\ InstantOf(warnings[i].onset) > now}

\* the earliest of them, the first in input order among equal onsets
IsNextUpcoming(i) ==
    /\ i \in Upcoming
    /\ \A j \in Upcoming :
           \/ InstantOf(warnings[i].onset) < InstantOf(warnings[j].onset)
           \/ (InstantOf(warnings[i].onset) = InstantOf(warnings[j].onset) /\ i <= j)

\* C9: the next upcoming record is the relevant record with the earliest
\* parseable onset after now, the first in input order among equal onsets;
\* nextWarningOnset is that instant and nextWarningSeverity that record's
\* own severity.
C9_NextUpcomingRecord ==
    pc = "buildWarningSignal" =>
        \A i \in 1..Len(warnings) :
            IsNextUpcoming(i) =>
                /\ Parses(signal.nextWarningOnset)
                /\ InstantOf(signal.nextWarningOnset) = InstantOf(warnings[i].onset)
                /\ signal.nextWarningSeverity = normalizeSeverity(warnings[i].nivel)

C9_Witness ==
    /\ pc = "buildWarningSignal"
    /\ Len(warnings) = 2
    /\ IsNextUpcoming(1)
    /\ 2 \in Upcoming
    /\ InstantOf(warnings[1].onset) = InstantOf(warnings[2].onset)
    /\ warnings[1].onset # warnings[2].onset
    /\ warnings[1].nivel = Some(Minor)
    /\ warnings[2].nivel = Some(Severe)
    /\ signal.nextWarningSeverity = "minor"

\* Madrid's calendar day of an instant (CET: one hour ahead of UTC)
MadridDay(t) == (t + HourMs) \div DayMs

\* C10: with the next upcoming onset, hasWarningWithin2Hours is true exactly
\* when 0 < onset - now <= 2 hours, hasWarningLaterToday exactly when the
\* onset is more than 2 hours away on the same Madrid calendar date as now;
\* a later date more than 2 hours away sets neither flag.
C10_UpcomingClassification ==
    pc = "buildWarningSignal" =>
        \A i \in 1..Len(warnings) :
            IsNextUpcoming(i) =>
                LET onset == InstantOf(warnings[i].onset)
                IN  /\ signal.hasWarningWithin2Hours
                           <=> (0 < onset - now /\ onset - now <= 2 * HourMs)
                    /\ signal.hasWarningLaterToday
                           <=> (onset - now > 2 * HourMs /\ MadridDay(onset) = MadridDay(now))
                    /\ (onset - now > 2 * HourMs /\ MadridDay(onset) > MadridDay(now))
                           => (~signal.hasWarningWithin2Hours /\ ~signal.hasWarningLaterToday)

C10_Witness ==
    /\ pc = "buildWarningSignal"
    /\ signal.hasWarningLaterToday
    /\ \E i \in 1..Len(warnings) :
           /\ IsNextUpcoming(i)
           /\ InstantOf(warnings[i].onset) - now > 2 * HourMs
           /\ InstantOf(warnings[i].onset) \div DayMs # now \div DayMs


\* C11: hasWarningWithin2Hours and hasWarningLaterToday are never both true
\* in a signal produced by buildWarningSignal.
C11_SoonAndLaterExclusive ==
    pc = "buildWarningSignal" =>
        ~(signal.hasWarningWithin2Hours /\ signal.hasWarningLaterToday)

C11_Witness ==
    /\ pc = "buildWarningSignal"
    /\ signal.hasWarningWithin2Hours
    /\ ~signal.hasWarningLaterToday
    /\ MadridDay(InstantOf(signal.nextWarningOnset)) = MadridDay(now)

----------------------------------------------------------------------------
(* Claims about the archive reader and the document extractor               *)
(* (specification SpecExtract)                                              *)

\* an archive as the claim defines it: headers, each followed by its padded
\* content, ended by an all-zero block
ValidArchive ==
    /\ payload.kind = "tar"
    /\ payload.ending \in {"twoZeroBlocks", "oneZeroBlock"}

\* the documents the entries were built from, by entry, then by position
RECURSIVE docsOfEntries(_)
docsOfEntries(entries) ==
    IF entries = <<>> THEN <<>>
    ELSE docsOf(Head(entries)) \o docsOfEntries(Tail(entries))

\* C12: from a valid archive the reader returns exactly the alert documents
\* of its entries, ordered by entry and then by position in the entry; an
\* entry without a document adds nothing and the walk goes on to the end
\* block.
C12_ValidArchiveYieldsAllDocuments ==
    (pc = "extractXmlDocumentsFromTarBuffer" /\ ValidArchive) =>
        /\ tarDocs.docs = docsOfEntries(payload.entries)
        /\ tarDocs.exit = "endBlock"
        /\ tarDocs.steps = Len(payload.entries) + 1

C12_Witness ==
    /\ pc = "extractXmlDocumentsFromTarBuffer"
    /\ ValidArchive
    /\ payload.entries = << <<Junk>>, <<DocA, Junk, DocB>> >>
    /\ tarDocs.docs = <<DocA.text, DocB.text>>

\* C13: whenever the walk over the block headers ends without having met an
\* all-zero end-of-archive block, the reader returns an empty list.
C13_NoEndBlockYieldsNothing ==
    (pc = "extractXmlDocumentsFromTarBuffer" /\ tarDocs.exit # "endBlock") =>
        tarDocs.docs = <<>>

\* the bytes are all zero (an empty buffer included)
AllZero(bytes) == \A i \in 1..Len(bytes) : bytes[i] = 0

\* C14: for a buffer that is empty, shorter than one block, or all zero, the
\* reader returns an empty list, by its length test or at the end block.
C14_ShortOrZeroBufferYieldsNothing ==
    (/\ pc = "extractXmlDocumentsFromTarBuffer"
     /\ (Len(buffer) < TAR_BLOCK_SIZE \/ AllZero(buffer))) =>
        /\ tarDocs.docs = <<>>
        /\ tarDocs.exit \in {"short", "endBlock"}

C14_Witness ==
    /\ pc = "extractXmlDocumentsFromTarBuffer"
    /\ payload.kind = "text"
    /\ payload.segs = <<DocA>>
    /\ Len(buffer) < TAR_BLOCK_SIZE
    /\ tarDocs.docs = <<>>

\* C15: the extractor returns the reader's documents whenever there is at
\* least one, and the documents of the whole buffer read as text only when
\* the reader gives none; no declared content type changes the documents
\* returned or whether an error is raised.
C15_ArchiveFirstThenRawText ==
    pc = "extractXmlDocuments" =>
        /\ tarDocs.docs # <<>> =>
               (~extracted.threw /\ extracted.docs = tarDocs.docs)
        /\ tarDocs.docs = <<>> =>
               extracted.docs = extractXmlDocumentsFromText(decodeUtf8(buffer))
        /\ \A c \in ContentTypes \ {contentType} :
               LET other == extractXmlDocuments(buffer, c)
               IN  other.docs = extracted.docs /\ other.threw = extracted.threw

C15_Witness ==
    /\ pc = "extractXmlDocuments"
    /\ contentType = "application/xml"
    /\ tarDocs.docs # <<>>
    /\ extracted.docs = tarDocs.docs
    /\ extractXmlDocumentsFromText(decodeUtf8(buffer)) # tarDocs.docs

\* the documents a plain text was built from, in text order
PlainTextDocs ==
    IF payload.kind = "text" THEN docsOf(payload.segs)
    ELSE docsOf(payload.head) \o docsOf(payload.tail)

\* C16: from a plain text holding K >= 1 complete alert documents the
\* extractor returns all K in text order, whatever the length of the text and
\* whatever characters stand at the offsets of a header's size field.
C16_PlainTextYieldsAllDocuments ==
    (/\ pc = "extractXmlDocuments"
     /\ payload.kind \in {"text", "laidOut"}
     /\ Len(PlainTextDocs) >= 1) =>
        (~extracted.threw /\ extracted.docs = PlainTextDocs)

\* every character is white space (an empty text included)
IsBlank(text) == \A i \in 1..Len(text) : text[i] \in WhiteSpace

\* C17: when neither the reader nor the scan of the raw text gives a
\* document, the extractor returns an empty list for an empty or blank text
\* and raises an error for any other text.
C17_NothingFoundBlankOrError ==
    LET rawText == decodeUtf8(buffer)
    IN  (/\ pc = "extractXmlDocuments"
         /\ tarDocs.docs = <<>>
         /\ extractXmlDocumentsFromText(rawText) = <<>>) =>
            IF IsBlank(rawText)
            THEN ~extracted.threw /\ extracted.docs = <<>>
            ELSE extracted.threw

C17_Witness ==
    /\ pc = "extractXmlDocuments"
    /\ payload.kind = "text"
    /\ payload.segs = <<Junk>>
    /\ extracted.threw
    /\ extracted.message.length = Len(Junk.text)

----------------------------------------------------------------------------
(* Claims about fetchWithRetry (specification SpecRetry) *)

\* C20: when every attempt fails, fetchWithRetry with the default retries = 3
\* makes the initial attempt and 3 retries, waits 1 s, 2 s and 4 s before the
\* successive retries, and only then throws the last error.
C20_ThreeRetriesWithBackoff ==
    (pc = "fetchWithRetry threw" /\ retries = DefaultRetries) =>
        /\ fetches = 1 + 3
        /\ waited = <<1000, 2000, 4000>>
        /\ thrown = failures[Len(failures)]

----------------------------------------------------------------------------
(* Claims about the proxy handler (specification SpecHandler) *)

\* the request is not a preflight and asks for mock mode
MockRequest ==
    req.method # "OPTIONS" /\ isText(firstQueryValue(req.mock), "true")

\* the request goes to the real pipeline with an API key configured
PipelineRequest ==
    /\ req.method # "OPTIONS"
    /\ ~isText(firstQueryValue(req.mock), "true")
    /\ truthy(apiKey)

\* C18: for a non-mock request with an API key configured, whichever stage
\* of the pipeline fails, the handler answers 200 with the empty signal (the
\* three flags false, both severities null, nextWarningOnset null); no
\* request of this kind gets an error response.
C18_PipelineFailsOpen ==
    (pc = "responded" /\ PipelineRequest) =>
        /\ response.status = 200
        /\ response.body.kind = "signal"
        /\ failure # "none" =>
            /\ ~response.body.signal.hasActiveWarning
            /\ ~response.body.signal.hasWarningWithin2Hours
            /\ ~response.body.signal.hasWarningLaterToday
            /\ response.body.signal.activeWarningSeverity = "null"
            /\ response.body.signal.nextWarningSeverity = "null"
            /\ response.body.signal.nextWarningOnset = NullOnset

C18_Witness ==
    /\ pc = "responded"
    /\ PipelineRequest
    /\ failure = "extraction"
    /\ payload.kind = "text"
    /\ response.status = 200

\* the scenario the mock parameters name
NamedScenario ==
    LET ws == firstQueryValue(req.warningScenario)
    IN  IF ws.kind = "string" /\ ws.value \in {"none", "active", "soon", "later"}
        THEN ws.value
        ELSE IF isText(firstQueryValue(req.warning), "true") THEN "active"
        ELSE "none"

\* C19: in mock mode the handler answers 200 with the canned signal of the
\* scenario named by warningScenario (none, active, soon, later), else
\* "active" for the legacy warning=true, else "none", without reading the
\* API key or fetching; the canned signal sets exactly the flag of its
\* scenario and no flag for "none".
C19_MockModeCannedSignal ==
    (pc = "responded" /\ MockRequest) =>
        /\ response.status = 200
        /\ response.body = SignalBody(buildMockWarningSignal(NamedScenario, now))
        /\ ~keyRead
        /\ fetchCount = 0
        /\ response.body.signal.hasActiveWarning = (NamedScenario = "active")
        /\ response.body.signal.hasWarningWithin2Hours = (NamedScenario = "soon")
        /\ response.body.signal.hasWarningLaterToday = (NamedScenario = "later")

C19_Witness ==
    /\ pc = "responded"
    /\ MockRequest
    /\ req.warningScenario = QString("soon")
    /\ req.warning = QString("true")
    /\ truthy(apiKey)
    /\ response.body.signal.hasWarningWithin2Hours
    /\ ~response.body.signal.hasActiveWarning

----------------------------------------------------------------------------
(* Claims about useRetiroStatus (specification SpecHook) *)

\* C21: a refresh that fails, or that is skipped because the browser is
\* offline, leaves data unchanged: data that is not null never becomes null,
\* and data changes only in the step in which a pending invocation completes
\* successfully, to that invocation's result.
C21_FailedRefreshKeepsData ==
    [][/\ data # Null => data' # Null
       /\ data' # data =>
            \E p \in pending :
                /\ p \notin pending'
                /\ p.id \in succeeded'
                /\ data'.by = p.id]_vars

C21_Witness ==
    /\ pc = "mounted"
    /\ data = RetiroStatus(0, 1)
    /\ started = MaxInvocations
    /\ pending = {}
    /\ error = ErrorOf("HTTP 500")
    /\ succeeded = {}


\* C27: when invocations of fetchStatus overlap, the data held is never the
\* result of an invocation older than one that has already completed
\* successfully: an older response does not overwrite a newer one.
C27_NewestResponseWins ==
    \A i \in succeeded : data # Null /\ data.by >= i


----------------------------------------------------------------------------
(* Claims about parseCapXml (specification SpecParse) *)

\* the entries of a section that carry a value, and among them those whose
\* name contains one of the markers
valuedEntries(es) ==
    {i \in 1..Len(es) : es[i].value.defined /\ trim(es[i].value.text) # <<>>}
markedEntries(es, markers) ==
    {i \in valuedEntries(es) :
        /\ es[i].name.defined
        /\ \E m \in markers : includes(toLowerCase(es[i].name.text), m)}
chosenValue(es, markers) ==
    IF markedEntries(es, markers) # {}
    THEN Some(trim(es[Least(markedEntries(es, markers))].value.text))
    ELSE IF valuedEntries(es) # {}
    THEN Some(trim(es[Least(valuedEntries(es))].value.text))
    ELSE Undefined

\* C22: parseCapXml yields one record per info section, in document order;
\* the phenomenon of a record is the value of the section's first eventCode
\* entry whose name contains the phenomenon marker, else the value of its
\* first eventCode entry with a value, else absent; the zone is chosen the
\* same way among the geocode entries with the zone markers.
C22_OneRecordPerInfoSection ==
    pc = "parseCapXml" =>
        /\ Len(warnings) = Len(payload.infos)
        /\ \A i \in 1..Len(warnings) :
            /\ warnings[i].nivel = Some(toLowerCase(payload.infos[i].severity))
            /\ warnings[i].fenomeno =
                   chosenValue(payload.infos[i].events, {MarkerFen})
            /\ warnings[i].zona =
                   chosenValue(payload.infos[i].geos, {MarkerUgc, MarkerZona})

C22_Witness ==
    /\ pc = "parseCapXml"
    /\ Len(warnings) = 2
    /\ payload.infos[1].events =
           <<NamedEntry(NameNivel, Some(Amarillo)),
             NamedEntry(NameFenomeno, Some(VI_Vientos))>>
    /\ warnings[1].fenomeno = Some(VI_Vientos)
    /\ payload.infos[1].geos = <<NamedEntry(NamePolygon, Some(Zone28079))>>
    /\ warnings[1].zona = Some(Zone28079)
    /\ warnings[2].fenomeno = Some(Amarillo)
    /\ warnings[2].zona = Undefined


----------------------------------------------------------------------------
(* Claims about repeated calls (specification SpecCalls) *)

----------------------------------------------------------------------------
(* Further claims about the archive reader (specification SpecExtract) *)

\* the archive was cut inside the padded content of its last entry
CutInsideLastEntry ==
    /\ payload.kind = "tar"
    /\ payload.ending = "truncated"
    /\ payload.entries # <<>>
    /\ textOf(payload.entries[Len(payload.entries)]) # <<>>

\* C24: when the walk meets a header whose size field does not parse as a
\* non-negative octal number, or an entry whose padded content would end
\* past the end of the buffer, the reader returns an empty list, whatever
\* documents the entries before it held.
C24_NoPartialResults ==
    pc = "extractXmlDocumentsFromTarBuffer" =>
        /\ payload.kind = "badTar" => tarDocs.exit = "badSize"
        /\ CutInsideLastEntry => tarDocs.exit = "overrun"
        /\ tarDocs.exit \in {"badSize", "overrun"} => tarDocs.docs = <<>>

C24_Witness ==
    /\ pc = "extractXmlDocumentsFromTarBuffer"
    /\ payload.kind = "badTar"
    /\ payload.entries = << <<DocA>>, <<DocA>> >>
    /\ tarDocs.steps = 3
    /\ tarDocs.exit = "badSize"
    /\ tarDocs.docs = <<>>

\* C30: the reader terminates: every iteration of its loop returns or moves
\* the offset forward by at least one block, so it makes at most
\* (buffer length / 512) iterations.
C30_ReaderTerminates ==
    pc \in {"extractXmlDocumentsFromTarBuffer", "extractXmlDocuments"} =>
        tarDocs.steps <= Len(buffer) \div TAR_BLOCK_SIZE

C30_Witness ==
    /\ pc = "extractXmlDocumentsFromTarBuffer"
    /\ payload.kind = "tar"
    /\ Len(payload.entries) = 2
    /\ payload.ending = "oneZeroBlock"
    /\ tarDocs.steps = 3
    /\ Len(buffer) = 3 * TAR_BLOCK_SIZE


----------------------------------------------------------------------------
(* Further claims about buildWarningSignal (specification SpecSignal) *)

\* C26: every signal of buildWarningSignal is coherent: an active severity
\* only with the active flag, the within-2-hours and later-today flags and
\* the next severity only with a next onset, and a next onset strictly after
\* now.
C26_SignalCoherent ==
    pc = "buildWarningSignal" =>
        /\ signal.activeWarningSeverity # "null" => signal.hasActiveWarning
        /\ (signal.hasWarningWithin2Hours \/ signal.hasWarningLaterToday)
               => signal.nextWarningOnset # NullOnset
        /\ signal.nextWarningSeverity # "null"
               => signal.nextWarningOnset # NullOnset
        /\ signal.nextWarningOnset # NullOnset
               => InstantOf(signal.nextWarningOnset) > now

C26_Witness ==
    /\ pc = "buildWarningSignal"
    /\ Len(warnings) = 2
    /\ Parses(warnings[1].onset) /\ InstantOf(warnings[1].onset) = now
    /\ signal.hasActiveWarning
    /\ signal.activeWarningSeverity = "severe"
    /\ signal.nextWarningOnset # NullOnset
    /\ signal.nextWarningSeverity = "null"
    /\ signal.hasWarningLaterToday

\* the list ws with the expires of every record taken away
withoutExpires(ws) ==
    [i \in 1..Len(ws) |-> [ws[i] EXCEPT !.expires = UndefinedTime]]

upcomingFields(sig) ==
    <<sig.nextWarningOnset, sig.nextWarningSeverity, sig.hasWarningWithin2Hours,
      sig.hasWarningLaterToday>>

\* C28 (specification SpecExpires): the upcoming fields of the signal depend
\* on the onsets only: the next onset, next severity, within-2-hours flag and
\* later-today flag of a list are those of the same list without its expires
\* values, so two lists that differ only in expires values (absent, empty,
\* unparseable, already past, before the onset) agree on them for the same
\* now.
C28_UpcomingIgnoresExpires ==
    pc = "buildWarningSignal" =>
        upcomingFields(signal)
            = upcomingFields(buildWarningSignal(withoutExpires(warnings), now))

C28_Witness ==
    /\ pc = "buildWarningSignal"
    /\ now = WindowStart * HourMs
    /\ Len(warnings) = 2
    /\ warnings[1].onset = UndefinedTime
    /\ warnings[1].expires = Iso(WindowStart + 2, 0)
    /\ warnings[2].onset = Iso(WindowStart + 1, 0)
    /\ warnings[2].expires = Iso(WindowStart - 1, 0)
    /\ signal.hasActiveWarning
    /\ signal.hasWarningWithin2Hours
    /\ signal.nextWarningSeverity = "severe"
    /\ ~buildWarningSignal(withoutExpires(<<warnings[2]>>), now).hasActiveWarning
    /\ buildWarningSignal(withoutExpires(<<warnings[1]>>), now).hasActiveWarning


----------------------------------------------------------------------------
(* Claims about the two mock branches (specification SpecMock) *)

\* the distance of a signal's next onset from the clock it was built on
onsetDistance(sig, clock) ==
    IF sig.nextWarningOnset = NullOnset THEN Null
    ELSE [null |-> FALSE, ms |-> InstantOf(sig.nextWarningOnset) - clock]

\* C29: in mock mode, for every combination of the parameters
\* warningScenario and warning, the proxy's mock branch and the hook's mock
\* branch select the same scenario, and their signals have the same three
\* flags, the same two severities, and a next onset at the same distance
\* from the clock each was built on.
C29_MockBranchesAgree ==
    (pc = "responded" /\ clientSignal # Null) =>
        /\ mockScenario(firstQueryValue(req.warningScenario),
                        firstQueryValue(req.warning))
             = clientMockScenario(searchGet(urlParams.warningScenario),
                                  searchGet(urlParams.warning))
        /\ response.status = 200
        /\ response.body.kind = "signal"
        /\ LET server == response.body.signal
           IN  /\ server.hasActiveWarning = clientSignal.hasActiveWarning
               /\ server.hasWarningWithin2Hours = clientSignal.hasWarningWithin2Hours
               /\ server.hasWarningLaterToday = clientSignal.hasWarningLaterToday
               /\ server.activeWarningSeverity = clientSignal.activeWarningSeverity
               /\ server.nextWarningSeverity = clientSignal.nextWarningSeverity
               /\ onsetDistance(server, now) = onsetDistance(clientSignal, clientNow)

C29_Witness ==
    /\ pc = "responded"
    /\ clientSignal # Null
    /\ urlParams.warningScenario = <<"soon", "active">>
    /\ urlParams.warning = <<"true">>
    /\ now # clientNow
    /\ clientSignal.hasWarningWithin2Hours
    /\ response.body.signal.hasWarningWithin2Hours
    /\ response.body.signal.nextWarningOnset # clientSignal.nextWarningOnset


----------------------------------------------------------------------------
(* Claims about the advisory over time (specification SpecTimeline) *)

OnsetAt   == InstantOf(warnings[1].onset)
ExpiresAt == InstantOf(warnings[1].expires)

\* C25: for one relevant record with onset before expires and an official
\* code in 1..4, the advisory only moves forward as now increases: before the
\* onset it is never likely_closed_now, never falls back from closing_soon,
\* and from closing_later_today goes only to closing_soon; it is
\* likely_closed_now at every instant from the onset (included) up to the
\* expiry (excluded), and none from then on.
C25_AdvisoryMovesForward ==
    [][pc' = "polled" =>
        /\ (OnsetAt <= now' /\ now' < ExpiresAt)
               => advisory'.state = "likely_closed_now"
        /\ now' >= ExpiresAt => advisory'.state = "none"
        /\ now' < OnsetAt =>
            /\ advisory'.state # "likely_closed_now"
            /\ (pc = "polled" /\ advisory.state = "closing_soon")
                   => advisory'.state = "closing_soon"
            /\ (pc = "polled" /\ advisory.state = "closing_later_today")
                   => advisory'.state \in {"closing_later_today", "closing_soon"}
      ]_vars

C25_Witness ==
    /\ pc = "polled"
    /\ now = OnsetAt
    /\ warnings[1].onset.off = 1
    /\ advisory.state = "likely_closed_now"
    /\ ~signal.hasWarningWithin2Hours
    /\ signal.nextWarningOnset = NullOnset

====
